---- MODULE Spec2Model ----
(***************************************************************************)
(* Model of the run-k6-action orchestrator: src/src/index.ts (run and the  *)
(* SIGINT handler) together with validateTestPaths of src/src/k6helper.ts. *)
(*                                                                         *)
(* Node runs every callback to completion, and the continuation of an      *)
(* `await` runs in the microtask queue right after the callback that       *)
(* resolved the awaited promise, before any other event is delivered.      *)
(* Each action below is therefore one event-loop callback together with    *)
(* the continuation of run() that it releases.                             *)
(*                                                                         *)
(* A script is identified by its index in testPaths; the child process     *)
(* spawned for it is identified by the same index, which also stands for   *)
(* its pid.  Every spawn is taken to succeed (child.pid is defined).       *)
(*                                                                         *)
(* Four specifications share the variables:                                *)
(*   Spec        run() and the SIGINT handler;                             *)
(*   SpecMap     run() with the stdout of the run processes, the output    *)
(*               classifier and the set trap of TEST_RESULT_URLS_MAP;      *)
(*   SpecParser  direct calls of parseK6Output (src/src/k6OutputParser.ts);*)
(*   SpecCmd     generateK6RunCommand followed by executeRunK6Command.     *)
(***************************************************************************)
EXTENDS Integers, Sequences, FiniteSets, TLC

\* Largest number of scripts the path resolver returns.
MaxScripts == 3

Scripts == 1..MaxScripts

\* Largest number of scripts in the runs whose output is followed chunk by
\* chunk.
MaxMapScripts == 2

\* Largest number of scripts in the runs whose termination is checked.
MaxLiveScripts == 2

\* Largest number of lines of a chunk and largest totalTestRuns in the direct
\* calls of parseK6Output.
MaxChunkLines == 2
MaxTotalTestRuns == 2

\* Largest length of a script path and of a flag string, in characters, in
\* the calls of the command builder.
MaxPathLen == 3
MaxFlagsLen == 3

\* Largest number of segments of a version string and largest segment in the
\* direct calls of isVersionAtLeast.
MaxSegments == 3
MaxSegment == 1
MaxRetries == 3         \* the largest retry.maxRetries (the default is 3)
MaxComments == 3        \* the most comments on the pull request before the call
MaxMapEntries == 2      \* the most entries of the map given to generatePRComment

\* Values of an environment variable: unset, the empty string, a non-empty string.
EnvValues == {"undefined", "", "set"}

\* The `code` argument of a child's 'exit' event: 0, a non-zero code, or
\* null when the child was terminated by a signal.
ExitCodes == {"0", "1", "null"}

\* Marks a child whose 'exit' event has not been delivered.
NotExited == "running"

VARIABLES
    testPaths,            \* result of findTestsToRun
    parallel,             \* input 'parallel'
    failFast,             \* input 'fail-fast'
    onlyVerifyScripts,    \* input 'only-verify-scripts'
    shouldCommentOnPR,    \* input 'cloud-comment-on-pr'
    K6_CLOUD_TOKEN,       \* process.env.K6_CLOUD_TOKEN
    K6_CLOUD_PROJECT_ID,  \* process.env.K6_CLOUD_PROJECT_ID
    debug,                \* input 'debug'
    pc,                   \* position of run(): start, validating, running,
                          \* commenting, returned, exited
    exitCode,             \* process.exitCode; the exit status once pc = "exited"
    exitBy,               \* which call ended the process
    failedMsgs,           \* messages passed to core.setFailed, in order
    inspectSpawned,       \* scripts whose dry-check was spawned, in spawn order
    inspectCode,          \* exit code of each dry-check, NotExited before
    validK6TestPaths,     \* the list validateTestPaths builds
    isCloud,              \* result of isCloudIntegrationEnabled()
    commands,             \* the run commands, each bound to one script
    childProcesses,       \* run processes spawned so far, in spawn order
    runCode,              \* exit code of each run process, NotExited before
    TEST_PIDS,            \* registry of live run process identifiers
    allTestsPassed,       \* the aggregate verdict
    killCalled,           \* children on which child.kill('SIGINT') was called
    killed,               \* children whose child.killed flag is set
    sigintKills,          \* pids given to process.kill by the SIGINT handler
    sigintFailed,         \* pids for which process.kill threw
    testRunIdsSet,        \* core.setOutput('testRunIds', ...) was called
    prCommentCalls,       \* number of calls of generatePRComment
    reported,             \* the maps read by the reporting block, in order
    TEST_RESULT_URLS_MAP, \* script path -> result reference (target of the Proxy)
    lastIndex,            \* lastIndex of the three progress expressions
    written,              \* texts given to process.stdout.write by the last
                          \* call of parseK6Output
    thresholdRuns,        \* times the set trap found the map at TOTAL_TEST_RUNS
    urlLogRuns,           \* times the set trap logged the result URLs
    called,               \* parseK6Output was called directly
    lastChunk,            \* the chunk given to the last direct call
    mapPresent,           \* testRunUrlsMap of the direct calls is an object (not null)
    totalTestRuns,        \* totalTestRuns of the direct calls
    mapBefore,            \* the map as the last direct call found it
    thrown,               \* the last direct call threw
    cmdPath,              \* generateK6RunCommand: argument path
    cmdFlags,             \* argument flags
    cmdIsCloud,           \* argument isCloud
    cmdRunLocally,        \* argument cloudRunLocally
    installedK6Version,   \* what getInstalledK6Version() returns
    cmdPhase,             \* idle, generated, thrown, spawned
    builtCommand,         \* the command string returned
    spawnCmd,             \* executeRunK6Command: first argument of spawn
    spawnArgs,            \* second argument of spawn
    givenVersion1,        \* isVersionAtLeast: argument version1
    givenVersion2,        \* argument version2
    versionResult,        \* "none" before the call; then "throw", "true", "false"
    maxRetries,           \* fetchWithRetry: retry.maxRetries
    attemptCount,         \* the loop counter
    lastError,            \* the error of the last failed attempt
    fetchPhase,           \* idle, fetching, backoff, returned, thrown
    fetchCalls,           \* the number of calls of fetch so far
    fetchOutcomes,        \* how each call of fetch settled, in order
    fetchResponse,        \* the attempt whose response was returned, 0 if none
    thrownError,          \* the error fetchWithRetry threw
    responseBody,         \* apiRequest: how the body of the response read
    apiResult,            \* apiRequest: pending, undefined, parsed, text, raised
    prComments,           \* the comments on the pull request, oldest first
    givenUrlsMap,         \* generatePRComment: the entries of testRunUrlsMap
    genPhase,             \* idle, fetching, lookup, listing, writing, returned, raised
    testRunIndex,         \* the loop counter of generatePRComment
    pullRequestNumber,    \* none before the lookup; then found, undefined, threw
    commentId,            \* what getActionCommentId returned, 0 for undefined
    writes,               \* the calls of updateComment and createComment, in order
    writeResult           \* createOrUpdateComment: none, resolved, threw

inputVars == <<testPaths, parallel, failFast, onlyVerifyScripts,
               shouldCommentOnPR, K6_CLOUD_TOKEN, K6_CLOUD_PROJECT_ID, debug>>
procVars == <<pc, exitCode, exitBy, failedMsgs>>
validVars == <<inspectSpawned, inspectCode, validK6TestPaths>>
execVars == <<isCloud, commands, childProcesses, runCode, TEST_PIDS,
              allTestsPassed, killCalled, killed>>
sigVars == <<sigintKills, sigintFailed>>
reportVars == <<testRunIdsSet, prCommentCalls, reported>>
mapVars == <<TEST_RESULT_URLS_MAP, lastIndex, written, thresholdRuns, urlLogRuns>>

callVars == <<called, lastChunk, mapPresent, totalTestRuns, mapBefore, thrown>>

cmdVars == <<cmdPath, cmdFlags, cmdIsCloud, cmdRunLocally, installedK6Version,
             cmdPhase, builtCommand, spawnCmd, spawnArgs>>

verVars == <<givenVersion1, givenVersion2, versionResult>>

\* The variables of the calls of library functions outside run().
apiVars == <<maxRetries, attemptCount, lastError, fetchPhase, fetchCalls,
             fetchOutcomes, fetchResponse, thrownError, responseBody, apiResult>>

commentVars == <<prComments, givenUrlsMap, genPhase, testRunIndex,
                 pullRequestNumber, commentId, writes, writeResult>>

libVars == <<verVars, apiVars, commentVars>>

vars == <<inputVars, procVars, validVars, execVars, sigVars, reportVars, mapVars,
          callVars, cmdVars, libVars>>

----------------------------------------------------------------------------
\* Helpers on sequences.

Range(s) == {s[i] : i \in DOMAIN s}

\* Array.prototype.indexOf: the first index holding x, 0 when absent.
IndexOf(s, x) ==
    IF x \in Range(s) THEN CHOOSE i \in DOMAIN s : s[i] = x /\ \A j \in 1..(i - 1) : s[j] # x
    ELSE 0

\* s.splice(i, 1): s without its i-th element.
Splice(s, i) == SubSeq(s, 1, i - 1) \o SubSeq(s, i + 1, Len(s))

RemovePidKeeps(pids, pid) == pids

\* The removal of a pid from the registry in an 'exit' handler.
RemovePid(pids, pid) ==
    IF IndexOf(pids, pid) > 0 THEN Splice(pids, IndexOf(pids, pid)) ELSE pids

----------------------------------------------------------------------------
\* Decisions taken by the code.

\* validateTestPaths keeps a script when `code === 0`.
RetainAnyNonOne(code) == code # "1"
IsValidExit(code) == code = "0"

IsFailureByNumber(code) == code = "1"

\* The 'exit' handlers of run() treat `code !== 0` as a failure.
IsFailure(code) == code # "0"

\* `if (code !== 0) { if (failFast) { ... process.exit(1) } }`
FailFastNever(code, ff) == FALSE
FailFastAlways(code, ff) == IsFailure(code)
FailFastTriggered(code, ff) == IsFailure(code) /\ ff

\* `childProcesses.forEach((child) => { if (!child.killed) child.kill('SIGINT') })`
KillTargetsNone(children, killedSet) == {}
KillTargets(children, killedSet) == {c \in Range(children) : c \notin killedSet}

SignalledAll(targets, codes) == targets

\* child.kill('SIGINT') sends the signal, and sets child.killed, only for a
\* child whose 'exit' event has not been emitted yet.
Signalled(targets, codes) == {k \in targets : codes[k] = NotExited}

NeverResolved(spawned, codes) == FALSE

AnyExited(spawned, codes) == \E t \in Range(spawned) : codes[t] # NotExited

\* `await Promise.all(allPromises)` of validateTestPaths: every promise is
\* resolved by the 'exit' event of its subprocess.
AllExited(spawned, codes) == \A t \in Range(spawned) : codes[t] # NotExited

KeepsLastOutcome(passedSoFar, code) == ~IsFailure(code)

\* `allTestsPassed = false` in the branch of `code !== 0`: the flag is only
\* ever lowered.
StillPassed(passedSoFar, code) == passedSoFar /\ ~IsFailure(code)

NextCommandAgain(cmds, spawned) == cmds[Len(spawned)]

\* The command of the next iteration of `for (const command of commands)`.
NextCommand(cmds, spawned) == cmds[Len(spawned) + 1]

FirstBatchAll(cmds, par) == cmds

\* The commands spawned when the executor is entered: all of them by the
\* forEach of parallel mode, the first one by the for loop otherwise.
FirstBatch(cmds, par) == IF par THEN cmds ELSE SubSeq(cmds, 1, 1)

\* `if (verifiedTestPaths.length === 0) throw new Error('No valid test files found')`
NoValidNever(verified) == FALSE
NoValidTestFiles(verified) == Len(verified) = 0

\* `if (testPaths.length === 0) throw new Error('No test files found')`
NoTestFiles(paths) == Len(paths) = 0

\* `if (onlyVerifyScripts) { ...; return }`
SkipNever(onlyVerify) == FALSE
SkipExecution(onlyVerify) == onlyVerify

\* isCloudIntegrationEnabled: "throw" stands for the raised Error.
CloudEnabledAlways(token, projectId) == "true"
CloudEnabledByToken(token, projectId) ==
    IF token = "undefined" \/ token = "" THEN "false" ELSE "true"
isCloudIntegrationEnabled(token, projectId) ==
    IF token = "undefined" \/ token = "" THEN "false"
    ELSE IF projectId = "undefined" \/ projectId = "" THEN "throw"
    ELSE "true"

\* `commands = testPaths.map((testPath) => generateK6RunCommand(testPath, ...))`
\* A command is represented by the script it is bound to.
CommandsFor(paths, verified) == paths

\* The pids the SIGINT handler passes to process.kill: TEST_PIDS.forEach with
\* a try/catch around each call, so a throwing call does not end the loop.
\* `failing` is the set of pids for which process.kill throws.
SigintKillsStopAtFailure(pids, failing) ==
    IF \E i \in DOMAIN pids : pids[i] \in failing
    THEN SubSeq(pids, 1, CHOOSE i \in DOMAIN pids :
                             pids[i] \in failing /\ \A j \in 1..(i - 1) : pids[j] \notin failing)
    ELSE pids
SigintKills(pids, failing) == pids

\* `if (!allTestsPassed) { process.exit(1) }`
VerdictIgnored(passed) == FALSE
VerdictFails(passed) == ~passed

----------------------------------------------------------------------------
\* The output classifier, src/src/k6OutputParser.ts.
\*
\* A text is a sequence of tokens.  A token stands for a piece of text that
\* the regular expressions of the classifier treat as a unit:
\*   "\n", " "             a line feed, a blank
\*   "script:", "output:"  the two labels
\*   "cloud", "(", ")"     the parts of `cloud (<url>)`
\*   "RI"    a match of runningIteration, e.g.
\*           `running (10s), 10/10 VUs, 100 complete and 0 interrupted iterations`
\*   "EP"    a match of executionProgress, e.g. `[  20% ] 10 VUs`
\*   "Init"  the word matched by the first alternative of cloudRunExecution
\*   "Run%"  a match of its second alternative, e.g. `Run    [  17% ]`
\*   ".io", "%0A", "ART"   the marker of the banner, the escaped line feed,
\*           and a stretch of banner drawing that holds every drawing character
\*   any other token       a word without blanks (a path, a URL, log text)
\* Positions inside a text (lastIndex) are counted in tokens.

\* The class \s, as far as the tokens go.
WhiteSpace == {" ", "\n"}

\* str.split(sep), for a one-token separator.
RECURSIVE Split(_, _)
Split(str, sep) ==
    IF \E i \in DOMAIN str : str[i] = sep
    THEN LET i == CHOOSE k \in DOMAIN str :
                      str[k] = sep /\ \A j \in 1..(k - 1) : str[j] # sep
         IN <<SubSeq(str, 1, i - 1)>> \o Split(SubSeq(str, i + 1, Len(str)), sep)
    ELSE <<str>>

\* arr.join(sep)
RECURSIVE Join(_, _)
Join(arr, sep) ==
    IF Len(arr) = 0 THEN <<>>
    ELSE IF Len(arr) = 1 THEN arr[1]
    ELSE arr[1] \o <<sep>> \o Join(Tail(arr), sep)

\* The smallest element of a non-empty set of numbers.
Least(S) == CHOOSE x \in S : \A y \in S : x <= y

\* `^\s*label` with the m flag matches with the label at position j: the
\* label is there and only blanks precede it on its line.
LabelAt(data, label, j) ==
    /\ data[j] = label
    /\ \A m \in 1..(j - 1) :
           (\A q \in m..(j - 1) : data[q] # "\n") => data[m] = " "

\* The last position of the line that holds position k.
LineEnd(data, k) ==
    IF \E e \in k..Len(data) : data[e] = "\n"
    THEN Least({e \in k..Len(data) : data[e] = "\n"}) - 1
    ELSE Len(data)

\* `\s*(.+)$` after the label at position j: the greedy \s* runs over blanks
\* and line feeds up to the next other token and (.+) takes the rest of that
\* line; when only white space follows, \s* gives back the last blank, which
\* (.+) then captures.  <<>> when there is no match.
CaptureAfter(data, j) ==
    LET others == {k \in (j + 1)..Len(data) : data[k] \notin WhiteSpace}
        blanks == {k \in (j + 1)..Len(data) : data[k] = " "}
    IN IF others # {} THEN SubSeq(data, Least(others), LineEnd(data, Least(others)))
       ELSE IF blanks # {} THEN <<" ">>
       ELSE <<>>

\* data.match(/^\s*label\s*(.+)$/m): the capture of the leftmost match, <<>>
\* for null.
MatchLabel(data, label) ==
    LET hits == {j \in DOMAIN data : LabelAt(data, label, j) /\ CaptureAfter(data, j) # <<>>}
    IN IF hits = {} THEN <<>> ELSE CaptureAfter(data, Least(hits))

\* output.match(/cloud\s*\((.+)\)/): the capture, <<>> for null.  (.+) is
\* greedy, so it ends before the last ")" of the text.
MatchCloudUrl(output) ==
    LET closing == {z \in DOMAIN output : output[z] = ")"}
        last == IF closing = {} THEN 0
                ELSE CHOOSE z \in closing : \A y \in closing : y <= z
        \* the position of "(" for the `cloud` at position a, 0 when none
        open(a) == LET next == {k \in (a + 1)..Len(output) : output[k] # " "}
                   IN IF next # {} /\ output[Least(next)] = "(" THEN Least(next) ELSE 0
        hits == {a \in DOMAIN output :
                    output[a] = "cloud" /\ open(a) > 0 /\ last > open(a) + 1}
    IN IF hits = {} THEN <<>>
       ELSE SubSeq(output, open(Least(hits)) + 1, last - 1)

\* The map is an object with string keys: a sequence of <<key, value>> pairs
\* in insertion order, with unique keys.
MapKeys(map) == {map[i][1] : i \in DOMAIN map}
MapGet(map, key) == map[CHOOSE i \in DOMAIN map : map[i][1] = key][2]

MapSetKeepsFirst(map, key, value) ==
    IF key \in MapKeys(map) THEN map ELSE Append(map, <<key, value>>)

\* map[key] = value
MapSet(map, key, value) ==
    IF key \in MapKeys(map)
    THEN [i \in DOMAIN map |-> IF map[i][1] = key THEN <<key, value>> ELSE map[i]]
    ELSE Append(map, <<key, value>>)

\* extractTestRunUrl: the new map and whether an entry was written.
ExtractSkipsCloudForm(data, map) ==
    LET scriptPath == MatchLabel(data, "script:")
        output == MatchLabel(data, "output:")
    IN IF scriptPath # <<>> /\ output # <<>>
       THEN [extracted |-> TRUE, map |-> MapSet(map, scriptPath, output)]
       ELSE [extracted |-> FALSE, map |-> map]
extractTestRunUrl(data, map) ==
    LET scriptPath == MatchLabel(data, "script:")
        output == MatchLabel(data, "output:")
        outputCloudUrl == IF output # <<>> /\ MatchCloudUrl(output) # <<>>
                          THEN MatchCloudUrl(output)
                          ELSE output
    IN IF scriptPath # <<>> /\ output # <<>>
       THEN [extracted |-> TRUE, map |-> MapSet(map, scriptPath, outputCloudUrl)]
       ELSE [extracted |-> FALSE, map |-> map]

\* The characters of the banner, K6_ASCII_ART_CHARS ("macron" is the
\* overline character).
K6_ASCII_ART_CHARS ==
    {"|", " ", "\n", "/", "macron", "(", ")", "_", ".", "i", "o", "\\"}

\* The characters of a token; a word stands for its own characters, none of
\* which is a banner character.
CharsOf(token) ==
    CASE token = ".io" -> {".", "i", "o"}
      [] token = "ART" -> {"|", " ", "/", "macron", "(", ")", "_", "\\"}
      [] token \in {" ", "\n", "(", ")"} -> {token}
      [] OTHER -> {"other:" \o token}

ArtIsSubset(data) ==
    /\ \E i \in DOMAIN data : data[i] = ".io"
    /\ LET replaced == [i \in DOMAIN data |-> IF data[i] = "%0A" THEN "\n" ELSE data[i]]
           cut == SubSeq(replaced, 1, Least({i \in DOMAIN data : data[i] = ".io"}))
           dataChars == UNION {CharsOf(cut[i]) : i \in DOMAIN cut}
       IN \A char \in dataChars : char \in K6_ASCII_ART_CHARS

\* checkIfK6ASCIIArt
checkIfK6ASCIIArt(data) ==
    /\ \E i \in DOMAIN data : data[i] = ".io"
    /\ LET replaced == [i \in DOMAIN data |-> IF data[i] = "%0A" THEN "\n" ELSE data[i]]
           cut == SubSeq(replaced, 1, Least({i \in DOMAIN data : data[i] = ".io"}))
           dataChars == UNION {CharsOf(cut[i]) : i \in DOMAIN cut}
       IN /\ Cardinality(dataChars) = Cardinality(K6_ASCII_ART_CHARS)
          /\ \A char \in dataChars : char \in K6_ASCII_ART_CHARS

\* The tokens that the three progress expressions match, in the order of
\* TEST_RUN_PROGRESS_MSG_REGEXES.
ProgressTokens == <<{"RI"}, {"EP"}, {"Init", "Run%"}>>

\* regex.test(line) for an expression with the g flag whose lastIndex is li:
\* the search starts at lastIndex; a match moves lastIndex to its end, a
\* failure resets it to 0.
RegexTest(line, tokens, li) ==
    LET found == {p \in (li + 1)..Len(line) : line[p] \in tokens}
    IN IF found # {} THEN [ok |-> TRUE, li |-> Least(found)]
       ELSE [ok |-> FALSE, li |-> 0]

\* TEST_RUN_PROGRESS_MSG_REGEXES.some((regex) => regex.test(line)): the
\* expressions are tried in order up to the first that matches.
RECURSIVE SomeRegexFrom(_, _, _)
SomeRegexFrom(line, li, r) ==
    IF r > Len(ProgressTokens) THEN [ok |-> FALSE, li |-> li]
    ELSE LET t == RegexTest(line, ProgressTokens[r], li[r])
             li2 == [li EXCEPT ![r] = t.li]
         IN IF t.ok THEN [ok |-> TRUE, li |-> li2]
            ELSE SomeRegexFrom(line, li2, r + 1)
SomeRegex(line, li) == SomeRegexFrom(line, li, 1)

\* lines.filter((line) => !isRegexMatch): the lines kept and the lastIndex
\* values left behind.
RECURSIVE FilterLines(_, _)
FilterLines(lines, li) ==
    IF Len(lines) = 0 THEN [kept |-> <<>>, li |-> li]
    ELSE LET t == SomeRegex(Head(lines), li)
             rest == FilterLines(Tail(lines), t.li)
         IN [kept |-> IF t.ok THEN rest.kept ELSE <<Head(lines)>> \o rest.kept,
             li |-> rest.li]

\* The guard of the extraction block of parseK6Output:
\* `testRunUrlsMap && Object.keys(testRunUrlsMap).length < totalTestRuns`
ExtractionOpenUnguarded(present, map, total) == Len(map) < total
ExtractionOpenAlways(present, map, total) == present
ExtractionOpen(present, map, total) == present /\ Len(map) < total

\* The early return of the extraction block:
\* `if ((testRunUrlExtracted || k6ASCIIArt) && !debug) return`
SuppressEvenInDebug(extracted, art, dbg) == extracted \/ art
Suppressed(extracted, art, dbg) == (extracted \/ art) /\ ~dbg

\* parseK6Output(data, testRunUrlsMap, totalTestRuns, debug).  `present`
\* tells whether testRunUrlsMap is an object (TRUE) or null (FALSE); li holds
\* the lastIndex of the three progress expressions.  The result holds the
\* map and the lastIndex values afterwards, whether an entry of the map was
\* written, the sequence of texts passed to process.stdout.write, and
\* whether a TypeError was thrown (a property of null was written).
parseK6Output(data, present, map, total, dbg, li) ==
    LET lines == Split(data, "\n")
        open == ExtractionOpen(present, map, total)
        ex == IF open THEN extractTestRunUrl(data, map)
              ELSE [extracted |-> FALSE, map |-> map]
        art == open /\ checkIfK6ASCIIArt(data)
        f == FilterLines(lines, li)
    IN IF open /\ ~present /\ ex.extracted
       THEN [map |-> map, li |-> li, wrote |-> FALSE, written |-> <<>>, thrown |-> TRUE]
       ELSE IF open /\ Suppressed(ex.extracted, art, dbg)
       THEN [map |-> ex.map, li |-> li, wrote |-> ex.extracted, written |-> <<>>,
             thrown |-> FALSE]
       ELSE IF dbg
       THEN [map |-> ex.map, li |-> li, wrote |-> ex.extracted, written |-> <<data>>,
             thrown |-> FALSE]
       ELSE IF Len(f.kept) < Len(lines) /\ Join(f.kept, "") = <<>>
       THEN [map |-> ex.map, li |-> f.li, wrote |-> ex.extracted, written |-> <<>>,
             thrown |-> FALSE]
       ELSE [map |-> ex.map, li |-> f.li, wrote |-> ex.extracted,
             written |-> <<Join(f.kept, "\n")>>, thrown |-> FALSE]

----------------------------------------------------------------------------
\* The command builder and the spawn of a command (k6helper.ts).
\*
\* A string is a sequence of characters; "k6", "run", "cloud", "--address=",
\* "--out=cloud" and "--local-execution" stand for those runs of characters,
\* none of which is a blank.  A version string `a.b.c` is the sequence of its
\* three numbers, and the empty version string is <<>>.

\* isVersionAtLeast throws: a version is empty or the numbers of segments
\* differ.
VersionCheckPads(version1, version2) ==
    \/ version1 = <<>>
    \/ version2 = <<>>
VersionCheckThrows(version1, version2) ==
    \/ version1 = <<>>
    \/ version2 = <<>>
    \/ Len(version1) # Len(version2)

\* version1.localeCompare(version2, undefined, {numeric: true}) >= 0: the
\* runs of digits compare as numbers, from the left; when one string is the
\* other followed by further segments, the shorter one is the smaller.
IsVersionGreater(version1, version2) ==
    LET differ == {i \in DOMAIN version1 \cap DOMAIN version2 : version1[i] # version2[i]}
    IN IF differ # {} THEN version1[Least(differ)] > version2[Least(differ)]
       ELSE Len(version1) > Len(version2)
isVersionAtLeast(version1, version2) ==
    LET differ == {i \in DOMAIN version1 \cap DOMAIN version2 : version1[i] # version2[i]}
    IN IF differ # {} THEN version1[Least(differ)] > version2[Least(differ)]
       ELSE Len(version1) >= Len(version2)

\* The version from which `k6 cloud run` is used: '0.54.0'.
CloudRunVersion == <<0, 54, 0>>

\* generateK6RunCommand(path, flags, isCloud, cloudRunLocally) with the
\* installed version k6Version: whether the version check throws, and the
\* command string returned otherwise.
generateK6RunCommand(path, flags, cloud, cloudRunLocally, k6Version) ==
    LET args0 == <<<<"--address=">>>> \o (IF flags # <<>> THEN Split(flags, " ") ELSE <<>>)
        newForm == cloud /\ isVersionAtLeast(k6Version, CloudRunVersion)
        command == IF newForm THEN <<"k6", " ", "cloud", " ", "run">>
                   ELSE IF cloud /\ ~cloudRunLocally THEN <<"k6", " ", "cloud">>
                   ELSE <<"k6", " ", "run">>
        args1 == IF newForm /\ cloudRunLocally THEN Append(args0, <<"--local-execution">>)
                 ELSE IF cloud /\ ~newForm /\ cloudRunLocally
                 THEN Append(args0, <<"--out=cloud">>)
                 ELSE args0
        args == Append(args1, path)
    IN [throws |-> cloud /\ VersionCheckThrows(k6Version, CloudRunVersion),
        command |-> command \o <<" ">> \o Join(args, " ")]

\* executeRunK6Command: parts = command.split(' '); the executable is
\* parts[0] and the arguments are parts.slice(1).
SpawnCmd(command) == Head(Split(command, " "))
SpawnArgs(command) == Tail(Split(command, " "))

----------------------------------------------------------------------------
\* createOrUpdateComment and generatePRComment.

\* A comment is "own" when its body starts with the watermark of this job.
CommentKinds == {"own", "other"}

\* An entry of testRunUrlsMap: its URL ends in /runs/<digits> or does not.
EntryKinds == {"id", "noId"}

\* The comments one call of issues.listComments returns: the call passes
\* neither per_page nor page, so it returns the first page, PageSize
\* comments (30 at GitHub, 2 here).
PageSize == 2

listComments(comments) ==
    SubSeq(comments, 1, IF Len(comments) < PageSize THEN Len(comments) ELSE PageSize)

\* comments.find(c => c.body && c.body.startsWith(watermark))?.id, with the
\* position of a comment as its id and 0 for undefined.
getActionCommentId(listed) ==
    IF \E i \in DOMAIN listed : listed[i] = "own"
    THEN Least({i \in DOMAIN listed : listed[i] = "own"})
    ELSE 0

\* The write createOrUpdateComment issues for a comment id.
WriteFor(id) ==
    IF id # 0 THEN [op |-> "update", id |-> id] ELSE [op |-> "create", id |-> 0]

----------------------------------------------------------------------------
\* fetchWithRetry(url, options, retryOptions) and apiRequest(url, ...).

\* How a call of fetch settles: a 2xx response, a response whose status is
\* listed in nonRetryStatusCodes, a response with another status, a rejection.
FetchOutcomes == {"ok", "nonRetryStatus", "retryStatus", "networkError"}

\* How the body of a response reads: JSON text, other text, or the read fails.
Bodies == {"json", "text", "unreadable"}

FailedAfter == [kind |-> "failedAfter", attempt |-> 0]

ReturnsOnlyOk(outcome) == outcome = "ok"

\* response.ok || retry.nonRetryStatusCodes.includes(response.status)
ReturnsResponse(outcome) == outcome \in {"ok", "nonRetryStatus"}

LoopEndsEarly(count, max) == count < max

\* while (attemptCount <= retry.maxRetries)
LoopContinues(count, max) == count <= max

ApiRequestUncaught(threw, ok, body) ==
    IF threw THEN "raised"
    ELSE IF ~ok \/ body = "unreadable" THEN "undefined"
    ELSE IF body = "json" THEN "parsed"
    ELSE "text"

\* What apiRequest returns: undefined from the catch block and for a
\* response that is not ok, else JSON.parse of the body and, when that
\* fails, the body text itself.
apiRequestResult(threw, ok, body) ==
    IF threw THEN "undefined"
    ELSE IF ~ok \/ body = "unreadable" THEN "undefined"
    ELSE IF body = "json" THEN "parsed"
    ELSE "text"

----------------------------------------------------------------------------
\* State after module load, before run() has made progress: the inputs and
\* the environment are fixed, nothing has been spawned.

InitWith(maxPaths, debugValues) ==
    /\ \E n \in 0..maxPaths : testPaths = [i \in 1..n |-> i]
    /\ debug \in debugValues
    /\ parallel \in BOOLEAN
    /\ failFast \in BOOLEAN
    /\ onlyVerifyScripts \in BOOLEAN
    /\ shouldCommentOnPR \in BOOLEAN
    /\ K6_CLOUD_TOKEN \in EnvValues
    /\ K6_CLOUD_PROJECT_ID \in EnvValues
    /\ pc = "start"
    /\ exitCode = 0
    /\ exitBy = "none"
    /\ failedMsgs = <<>>
    /\ inspectSpawned = <<>>
    /\ inspectCode = [s \in Scripts |-> NotExited]
    /\ validK6TestPaths = <<>>
    /\ isCloud = FALSE
    /\ commands = <<>>
    /\ childProcesses = <<>>
    /\ runCode = [s \in Scripts |-> NotExited]
    /\ TEST_PIDS = <<>>
    /\ allTestsPassed = TRUE
    /\ killCalled = {}
    /\ killed = {}
    /\ sigintKills = <<>>
    /\ sigintFailed = {}
    /\ testRunIdsSet = FALSE
    /\ prCommentCalls = 0
    /\ reported = <<>>
    /\ TEST_RESULT_URLS_MAP = <<>>
    /\ lastIndex = <<0, 0, 0>>
    /\ written = <<>>
    /\ thresholdRuns = 0
    /\ urlLogRuns = 0

\* parseK6Output is called by the stdout handlers of run() only.
NoDirectCall ==
    /\ called = FALSE
    /\ lastChunk = <<>>
    /\ mapPresent = TRUE
    /\ totalTestRuns = 0
    /\ mapBefore = <<>>
    /\ thrown = FALSE

\* The command builder is not followed: the commands of run() stand for
\* their scripts.
NoCommand ==
    /\ cmdPath = <<>>
    /\ cmdFlags = <<>>
    /\ cmdIsCloud = FALSE
    /\ cmdRunLocally = FALSE
    /\ installedK6Version = <<>>
    /\ cmdPhase = "idle"
    /\ builtCommand = <<>>
    /\ spawnCmd = <<>>
    /\ spawnArgs = <<>>

\* No library function is called outside run().
NoVersionCall ==
    /\ givenVersion1 = <<>>
    /\ givenVersion2 = <<>>
    /\ versionResult = "none"

NoError == [kind |-> "none", attempt |-> 0]

NoApiCall ==
    /\ maxRetries = 0
    /\ attemptCount = 0
    /\ lastError = NoError
    /\ fetchPhase = "idle"
    /\ fetchCalls = 0
    /\ fetchOutcomes = <<>>
    /\ fetchResponse = 0
    /\ thrownError = NoError
    /\ responseBody = "none"
    /\ apiResult = "pending"

NoCommentCall ==
    /\ prComments = <<>>
    /\ givenUrlsMap = <<>>
    /\ genPhase = "idle"
    /\ testRunIndex = 0
    /\ pullRequestNumber = "none"
    /\ commentId = 0
    /\ writes = <<>>
    /\ writeResult = "none"

NoLibraryCall ==
    /\ NoVersionCall
    /\ NoApiCall
    /\ NoCommentCall

\* The runs in which no output of the run processes is followed.
Init == InitWith(MaxScripts, {FALSE}) /\ NoDirectCall /\ NoCommand /\ NoLibraryCall

----------------------------------------------------------------------------
\* Ways in which a callback of run() ends.

\* run() returns without an error; the process lives on until its event loop
\* is empty.
Return ==
    /\ pc' = "returned"
    /\ UNCHANGED <<exitCode, exitBy, failedMsgs>>

\* An Error reaches the catch block of run(): core.setFailed(error.message)
\* records the message and sets process.exitCode to 1; run() then returns.
SetFailed(msg) ==
    /\ pc' = "returned"
    /\ failedMsgs' = Append(failedMsgs, msg)
    /\ exitCode' = 1
    /\ UNCHANGED exitBy

\* process.exit(status) at the place named by `by`.
ProcessExit(status, by) ==
    /\ pc' = "exited"
    /\ exitCode' = status
    /\ exitBy' = by
    /\ UNCHANGED failedMsgs

\* The end of run(): `if (!allTestsPassed) process.exit(1)`.
FinalVerdict(passed) ==
    IF VerdictFails(passed) THEN ProcessExit(1, "someFailed") ELSE Return

\* The code of run() after `await Promise.all(allPromises)`: the cloud
\* reporting block, then the verdict.  generatePRComment is awaited, so the
\* verdict is reached in a later callback.
AfterAllExited(cloud, passed) ==
    IF cloud
    THEN /\ testRunIdsSet' = TRUE
         /\ reported' = Append(reported, TEST_RESULT_URLS_MAP)
         /\ IF shouldCommentOnPR
            THEN /\ prCommentCalls' = prCommentCalls + 1
                 /\ pc' = "commenting"
                 /\ UNCHANGED <<exitCode, exitBy, failedMsgs>>
            ELSE /\ FinalVerdict(passed)
                 /\ UNCHANGED prCommentCalls
    ELSE /\ FinalVerdict(passed)
         /\ UNCHANGED reportVars

\* The executor is entered: the commands are built and, in parallel mode,
\* all of them are spawned in the forEach; in sequential mode the first
\* iteration of the for loop spawns the first command and awaits its exit.
StartExecutor(cloud, cmds) ==
    /\ isCloud' = cloud
    /\ commands' = cmds
    /\ childProcesses' = FirstBatch(cmds, parallel)
    /\ TEST_PIDS' = FirstBatch(cmds, parallel)
    /\ pc' = "running"
    /\ UNCHANGED <<exitCode, exitBy, failedMsgs, runCode, allTestsPassed,
                   killCalled, killed, reportVars>>

\* The code of run() after `await validateTestPaths(...)`, lines 57-113.
AfterValidation(verified) ==
    IF NoValidTestFiles(verified)
    THEN /\ SetFailed("No valid test files found")
         /\ UNCHANGED <<execVars, reportVars>>
    ELSE IF SkipExecution(onlyVerifyScripts)
    THEN /\ Return
         /\ UNCHANGED <<execVars, reportVars>>
    ELSE IF isCloudIntegrationEnabled(K6_CLOUD_TOKEN, K6_CLOUD_PROJECT_ID) = "throw"
    THEN /\ SetFailed("K6_CLOUD_PROJECT_ID must be set when K6_CLOUD_TOKEN is set")
         /\ UNCHANGED <<execVars, reportVars>>
    ELSE StartExecutor(
             isCloudIntegrationEnabled(K6_CLOUD_TOKEN, K6_CLOUD_PROJECT_ID) = "true",
             CommandsFor(testPaths, verified))

----------------------------------------------------------------------------
\* Actions.

\* run() from its start to the first suspension inside validateTestPaths:
\* the path resolver has answered; with no script the run fails, otherwise a
\* dry-check subprocess is spawned for every script, in list order.
FindTests ==
    /\ pc = "start"
    /\ IF NoTestFiles(testPaths)
       THEN /\ SetFailed("No test files found")
            /\ UNCHANGED validVars
       ELSE /\ inspectSpawned' = testPaths
            /\ pc' = "validating"
            /\ UNCHANGED <<exitCode, exitBy, failedMsgs, inspectCode, validK6TestPaths>>
    /\ UNCHANGED <<inputVars, execVars, sigVars, reportVars, mapVars, callVars, cmdVars,
                   libVars>>

\* The 'exit' event of the dry-check of script s with the given code.  When
\* it is the last one, Promise.all resolves and run() goes on.
InspectExit(s, code) ==
    /\ pc = "validating"
    /\ s \in Range(inspectSpawned)
    /\ inspectCode[s] = NotExited
    /\ inspectCode' = [inspectCode EXCEPT ![s] = code]
    /\ validK6TestPaths' = IF IsValidExit(code) THEN Append(validK6TestPaths, s)
                           ELSE validK6TestPaths
    /\ IF AllExited(inspectSpawned, inspectCode')
       THEN AfterValidation(validK6TestPaths')
       ELSE UNCHANGED <<procVars, execVars, reportVars>>
    /\ UNCHANGED <<inputVars, inspectSpawned, sigVars, mapVars, callVars, cmdVars,
                   libVars>>

\* The 'exit' event of run process c with the given code: the handlers of
\* lines 133-159 (parallel) and 175-196 (sequential), and the continuation
\* of run() that the resolved promise releases.
RunExit(c, code) ==
    /\ pc = "running"
    /\ c \in Range(childProcesses)
    /\ runCode[c] = NotExited
    /\ runCode' = [runCode EXCEPT ![c] = code]
    /\ LET pids == RemovePid(TEST_PIDS, c)
           passed == StillPassed(allTestsPassed, code)
       IN IF FailFastTriggered(code, failFast)
          THEN /\ TEST_PIDS' = pids
               /\ killCalled' = IF parallel THEN KillTargets(childProcesses, killed)
                                ELSE killCalled
               /\ killed' = IF parallel
                            THEN killed \cup Signalled(KillTargets(childProcesses, killed),
                                                       runCode')
                            ELSE killed
               /\ ProcessExit(1, "failFast")
               /\ UNCHANGED <<isCloud, commands, childProcesses, allTestsPassed, reportVars>>
          ELSE /\ allTestsPassed' = passed
               /\ UNCHANGED <<isCloud, commands, killCalled, killed>>
               /\ IF parallel
                  THEN /\ TEST_PIDS' = pids
                       /\ UNCHANGED childProcesses
                       /\ IF \A k \in Range(childProcesses) : runCode'[k] # NotExited
                          THEN AfterAllExited(isCloud, passed)
                          ELSE UNCHANGED <<procVars, reportVars>>
                  ELSE IF Len(childProcesses) < Len(commands)
                       THEN /\ childProcesses' =
                                  Append(childProcesses, NextCommand(commands, childProcesses))
                            /\ TEST_PIDS' = Append(pids, NextCommand(commands, childProcesses))
                            /\ UNCHANGED <<procVars, reportVars>>
                       ELSE /\ TEST_PIDS' = pids
                            /\ UNCHANGED childProcesses
                            /\ AfterAllExited(isCloud, passed)
    /\ UNCHANGED <<inputVars, validVars, sigVars, mapVars, callVars, cmdVars,
                   libVars>>

\* generatePRComment settles: it resolves, or it rejects (an await inside it
\* that is not wrapped in a try block fails) and the error reaches the catch
\* block of run().
CommentDone(ok) ==
    /\ pc = "commenting"
    /\ IF ok THEN FinalVerdict(allTestsPassed)
       ELSE SetFailed("generatePRComment failed")
    /\ UNCHANGED <<inputVars, validVars, execVars, sigVars, reportVars, mapVars,
                   callVars, cmdVars,
                   libVars>>

\* The SIGINT handler, lines 231-241.  `failing` is the set of registered
\* pids for which process.kill throws.
OnSIGINT(failing) ==
    /\ pc # "exited"
    /\ failing \subseteq Range(TEST_PIDS)
    /\ sigintKills' = SigintKills(TEST_PIDS, failing)
    /\ sigintFailed' = failing \cap Range(sigintKills')
    /\ ProcessExit(1, "SIGINT")
    /\ UNCHANGED <<inputVars, validVars, execVars, reportVars, mapVars, callVars, cmdVars,
                   libVars>>

\* run() has returned and the event loop is empty: the process ends with
\* process.exitCode.
EventLoopEmpty ==
    /\ pc = "returned"
    /\ ProcessExit(exitCode, "drain")
    /\ UNCHANGED <<inputVars, validVars, execVars, sigVars, reportVars, mapVars,
                   callVars, cmdVars,
                   libVars>>

Next ==
    \/ FindTests
    \/ \E s \in Scripts, code \in ExitCodes : InspectExit(s, code)
    \/ \E c \in Scripts, code \in ExitCodes : RunExit(c, code)
    \/ \E ok \in BOOLEAN : CommentDone(ok)
    \/ \E failing \in SUBSET Scripts : OnSIGINT(failing)
    \/ EventLoopEmpty

Spec == Init /\ [][Next]_vars

\* The runs in which every subprocess that was spawned exits and every
\* pending callback is run in the end: the 'exit' events of the dry-checks
\* and of the run processes are delivered, generatePRComment settles (its
\* requests are bounded by retries and by the timeouts of fetch), and the
\* process ends once run() has returned.  SIGINT may arrive or not.
Progress ==
    \/ FindTests
    \/ \E s \in Scripts, code \in ExitCodes : InspectExit(s, code)
    \/ \E c \in Scripts, code \in ExitCodes : RunExit(c, code)
    \/ \E ok \in BOOLEAN : CommentDone(ok)
    \/ EventLoopEmpty

InitLive == InitWith(MaxLiveScripts, {FALSE}) /\ NoDirectCall /\ NoCommand /\ NoLibraryCall

SpecLive == InitLive /\ [][Next]_vars /\ WF_vars(Progress)

----------------------------------------------------------------------------
\* The runs in which the output of the run processes is followed.

\* The path of script s and the URL of its test run as texts, and the chunk
\* that the run process of script s writes: the header that k6 prints,
\*   script: <path>
\*   output: cloud (<url>)
PathOf(s) == <<"p" \o ToString(s)>>
UrlOf(s) == <<"u" \o ToString(s)>>
HeaderCloud(s) ==
    <<"script:">> \o PathOf(s) \o <<"\n", "output:", "cloud", "(">> \o UrlOf(s) \o <<")">>
RunChunks(s) == {HeaderCloud(s)}

\* A 'data' event on the stdout of run process c (k6helper.ts, line 185):
\* parseK6Output is called with the Proxy, TOTAL_TEST_RUNS and the debug
\* input.  A write of an entry goes through the set trap (index.ts, lines
\* 98-111), which checks the size of the map against TOTAL_TEST_RUNS.  The
\* stream of a child may deliver data after the 'exit' event of the child.
RunStdout(c, data) ==
    /\ pc = "running"
    /\ c \in Range(childProcesses)
    /\ LET TOTAL_TEST_RUNS == Len(commands)
           r == parseK6Output(data, TRUE, TEST_RESULT_URLS_MAP, TOTAL_TEST_RUNS,
                              debug, lastIndex)
           atThreshold == r.wrote /\ Len(r.map) = TOTAL_TEST_RUNS
       IN /\ TEST_RESULT_URLS_MAP' = r.map
          /\ lastIndex' = r.li
          /\ written' = r.written
          /\ thresholdRuns' = IF atThreshold THEN thresholdRuns + 1 ELSE thresholdRuns
          /\ urlLogRuns' = IF atThreshold /\ isCloud THEN urlLogRuns + 1 ELSE urlLogRuns
    /\ UNCHANGED <<inputVars, procVars, validVars, execVars, sigVars, reportVars, callVars, cmdVars,
                   libVars>>

\* The inputs of these runs: the scripts are to be executed, the output is
\* filtered, and the cloud settings are complete or absent.
InitMap ==
    /\ InitWith(MaxMapScripts, {FALSE})
    /\ NoDirectCall
    /\ NoCommand
    /\ NoLibraryCall
    /\ ~onlyVerifyScripts
    /\ K6_CLOUD_PROJECT_ID = "set"
    /\ K6_CLOUD_TOKEN \in {"undefined", "set"}

\* The exit codes of these runs: success or failure.
MapExitCodes == {"0", "1"}

NextMap ==
    \/ FindTests
    \/ \E s \in Scripts, code \in MapExitCodes : InspectExit(s, code)
    \/ \E c \in Scripts, code \in MapExitCodes : RunExit(c, code)
    \/ \E ok \in BOOLEAN : CommentDone(ok)
    \/ OnSIGINT({})
    \/ EventLoopEmpty
    \/ \E c \in Scripts : \E data \in RunChunks(c) : RunStdout(c, data)

SpecMap == InitMap /\ [][NextMap]_vars

----------------------------------------------------------------------------
\* Direct calls of parseK6Output, as in src/test/k6OutputParser.test.ts: the
\* map is a plain object or null, and the calls follow one another in one
\* process, so the progress expressions keep their lastIndex between calls.

\* The lines of the chunks: the header lines of two scripts (the result
\* reference in either form), a line of each kind of progress, a line of
\* other text, an empty line, and the banner: its rows on lines of their own,
\* or on one line with `%0A` between them as during a cloud execution.
LineTemplates ==
    { <<" ", "script:", " ", "p1">>,
      <<"script:", "p2">>,
      <<" ", "output:", " ", "cloud", " ", "(", "u1", ")">>,
      <<" ", "output:", " ", "-">>,
      <<"RI">>,
      <<"x", " ", "EP">>,
      <<"Init">>,
      <<"x">>,
      <<>>,
      <<"ART">>,
      <<"ART", ".io">>,
      <<"ART", "%0A", "ART", ".io">> }

\* The chunks of n lines, and all chunks.
ChunksOf(n) == {Join(ls, "\n") : ls \in [1..n -> LineTemplates]}
Chunks == UNION {ChunksOf(n) : n \in 1..MaxChunkLines}

\* One call parseK6Output(chunk, testRunUrlsMap, totalTestRuns, debug).
ParserCall(chunk) ==
    /\ ~called
    /\ LET r == parseK6Output(chunk, mapPresent, TEST_RESULT_URLS_MAP, totalTestRuns,
                              debug, lastIndex)
       IN /\ TEST_RESULT_URLS_MAP' = r.map
          /\ lastIndex' = r.li
          /\ written' = r.written
          /\ thrown' = r.thrown
    /\ called' = TRUE
    /\ lastChunk' = chunk
    /\ mapBefore' = TEST_RESULT_URLS_MAP
    /\ UNCHANGED <<inputVars, procVars, validVars, execVars, sigVars, reportVars,
                   thresholdRuns, urlLogRuns, mapPresent, totalTestRuns, cmdVars,
                   libVars>>

\* No run() is in progress; the arguments of the calls are fixed.
InitParser ==
    /\ InitWith(0, BOOLEAN)
    /\ NoCommand
    /\ NoLibraryCall
    /\ ~parallel /\ ~failFast /\ ~onlyVerifyScripts /\ ~shouldCommentOnPR
    /\ K6_CLOUD_TOKEN = "undefined" /\ K6_CLOUD_PROJECT_ID = "undefined"
    /\ called = FALSE
    /\ lastChunk = <<>>
    /\ mapPresent \in BOOLEAN
    /\ totalTestRuns \in 0..MaxTotalTestRuns
    /\ mapBefore = <<>>
    /\ thrown = FALSE

\* Between two calls the record of the last call is dropped (afterEach of
\* the tests restores the spy on process.stdout.write); the map and the
\* progress expressions, which live in the module, keep their state.
ForgetCall ==
    /\ called
    /\ called' = FALSE
    /\ lastChunk' = <<>>
    /\ mapBefore' = <<>>
    /\ written' = <<>>
    /\ thrown' = FALSE
    /\ UNCHANGED <<inputVars, procVars, validVars, execVars, sigVars, reportVars,
                   TEST_RESULT_URLS_MAP, lastIndex, thresholdRuns, urlLogRuns,
                   mapPresent, totalTestRuns, cmdVars,
                   libVars>>

NextParser ==
    \/ \E chunk \in Chunks : ParserCall(chunk)
    \/ ForgetCall

SpecParser == InitParser /\ [][NextParser]_vars

----------------------------------------------------------------------------
\* Calls of the command builder followed by the spawn of the command.

\* The characters of paths and of flag strings: a character other than a
\* blank, and a blank.  A path is the name of a file that the glob matched,
\* here one that neither starts nor ends with a blank; core.getInput trims
\* the flag string.
PathChars == {"p", " "}
FlagChars == {"-f", " "}
Strings(chars, maxLen) ==
    {str \in UNION {[1..n -> chars] : n \in 0..maxLen} :
        str # <<>> => str[1] # " " /\ str[Len(str)] # " "}

\* The versions that `k6 version` reports; <<>> when the command fails or its
\* output holds no version.
K6Versions ==
    {<<>>} \cup {<<major, minor, patch>> : major \in 0..1, minor \in {9, 53, 54, 100},
                                          patch \in 0..1}

\* commands = testPaths.map(path => generateK6RunCommand(path, ...)), one call.
Generate ==
    /\ cmdPhase = "idle"
    /\ LET r == generateK6RunCommand(cmdPath, cmdFlags, cmdIsCloud, cmdRunLocally,
                                     installedK6Version)
       IN IF r.throws
          THEN /\ cmdPhase' = "thrown"
               /\ UNCHANGED builtCommand
          ELSE /\ cmdPhase' = "generated"
               /\ builtCommand' = r.command
    /\ UNCHANGED <<inputVars, procVars, validVars, execVars, sigVars, reportVars,
                   mapVars, callVars, cmdPath, cmdFlags, cmdIsCloud, cmdRunLocally,
                   installedK6Version, spawnCmd, spawnArgs, libVars>>

\* executeRunK6Command(command, ...): the command is split at the blanks and
\* spawned.
Execute ==
    /\ cmdPhase = "generated"
    /\ spawnCmd' = SpawnCmd(builtCommand)
    /\ spawnArgs' = SpawnArgs(builtCommand)
    /\ cmdPhase' = "spawned"
    /\ UNCHANGED <<inputVars, procVars, validVars, execVars, sigVars, reportVars,
                   mapVars, callVars, cmdPath, cmdFlags, cmdIsCloud, cmdRunLocally,
                   installedK6Version, builtCommand, libVars>>

\* No run() is in progress; the arguments of the call are fixed.
InitCmd ==
    /\ InitWith(0, {FALSE})
    /\ NoDirectCall
    /\ NoLibraryCall
    /\ ~parallel /\ ~failFast /\ ~onlyVerifyScripts /\ ~shouldCommentOnPR
    /\ K6_CLOUD_TOKEN = "undefined" /\ K6_CLOUD_PROJECT_ID = "undefined"
    /\ cmdPath \in Strings(PathChars, MaxPathLen) \ {<<>>}
    /\ cmdFlags \in Strings(FlagChars, MaxFlagsLen)
    /\ cmdIsCloud \in BOOLEAN
    /\ cmdRunLocally \in BOOLEAN
    /\ installedK6Version \in K6Versions
    /\ cmdPhase = "idle"
    /\ builtCommand = <<>>
    /\ spawnCmd = <<>>
    /\ spawnArgs = <<>>

NextCmd ==
    \/ Generate
    \/ Execute

SpecCmd == InitCmd /\ [][NextCmd]_vars

----------------------------------------------------------------------------
\* Direct calls of isVersionAtLeast(version1, version2).

Versions ==
    UNION {[1..n -> 0..MaxSegment] : n \in 0..MaxSegments}

CompareVersions ==
    /\ versionResult = "none"
    /\ versionResult' =
           IF VersionCheckThrows(givenVersion1, givenVersion2) THEN "throw"
           ELSE IF isVersionAtLeast(givenVersion1, givenVersion2) THEN "true"
           ELSE "false"
    /\ UNCHANGED <<inputVars, procVars, validVars, execVars, sigVars, reportVars,
                   mapVars, callVars, cmdVars, givenVersion1, givenVersion2,
                   apiVars, commentVars>>

InitVersion ==
    /\ InitWith(0, {FALSE})
    /\ NoDirectCall
    /\ NoCommand
    /\ ~parallel /\ ~failFast /\ ~onlyVerifyScripts /\ ~shouldCommentOnPR
    /\ K6_CLOUD_TOKEN = "undefined" /\ K6_CLOUD_PROJECT_ID = "undefined"
    /\ givenVersion1 \in Versions
    /\ givenVersion2 \in Versions
    /\ versionResult = "none"
    /\ NoApiCall
    /\ NoCommentCall

NextVersion == CompareVersions

SpecVersion == InitVersion /\ [][NextVersion]_vars

----------------------------------------------------------------------------
\* Calls of apiRequest, which calls fetchWithRetry.

\* The head of the loop of fetchWithRetry with attemptCount = count and
\* lastError = err: the next call of fetch, or the throw after the loop,
\* which the catch block of apiRequest receives.
LoopStep(count, err) ==
    /\ attemptCount' = count
    /\ IF LoopContinues(count, maxRetries)
       THEN /\ fetchCalls' = fetchCalls + 1
            /\ fetchPhase' = "fetching"
            /\ UNCHANGED <<thrownError, apiResult>>
       ELSE /\ fetchPhase' = "thrown"
            /\ thrownError' = (IF err = NoError THEN FailedAfter ELSE err)
            /\ apiResult' = apiRequestResult(TRUE, FALSE, "unreadable")
            /\ UNCHANGED fetchCalls

OtherThanApi ==
    <<inputVars, procVars, validVars, execVars, sigVars, reportVars, mapVars,
      callVars, cmdVars, verVars, commentVars>>

\* apiRequest is called and calls fetchWithRetry.
ApiRequest ==
    /\ fetchPhase = "idle"
    /\ LoopStep(0, lastError)
    /\ UNCHANGED <<maxRetries, lastError, fetchOutcomes, fetchResponse, responseBody>>
    /\ UNCHANGED OtherThanApi

\* The pending call of fetch settles; the loop body runs up to the return,
\* the timer of the backoff, or the end of the loop.
FetchSettles(outcome) ==
    /\ fetchPhase = "fetching"
    /\ fetchOutcomes' = Append(fetchOutcomes, outcome)
    /\ IF outcome # "networkError" /\ ReturnsResponse(outcome)
       THEN /\ fetchPhase' = "returned"
            /\ fetchResponse' = fetchCalls
            /\ UNCHANGED <<attemptCount, lastError, fetchCalls, thrownError, apiResult>>
       ELSE LET err == [kind |-> IF outcome = "networkError" THEN "network" ELSE "http",
                        attempt |-> fetchCalls]
            IN  /\ lastError' = err
                /\ UNCHANGED fetchResponse
                /\ IF attemptCount < maxRetries
                   THEN /\ fetchPhase' = "backoff"
                        /\ UNCHANGED <<attemptCount, fetchCalls, thrownError, apiResult>>
                   ELSE LoopStep(attemptCount + 1, err)
    /\ UNCHANGED <<maxRetries, responseBody>>
    /\ UNCHANGED OtherThanApi

\* The timer of the backoff fires: attemptCount++ and the next iteration.
BackoffElapsed ==
    /\ fetchPhase = "backoff"
    /\ LoopStep(attemptCount + 1, lastError)
    /\ UNCHANGED <<maxRetries, lastError, fetchOutcomes, fetchResponse, responseBody>>
    /\ UNCHANGED OtherThanApi

\* apiRequest reads the body of the response fetchWithRetry returned.
BodyRead(body) ==
    /\ fetchPhase = "returned"
    /\ apiResult = "pending"
    /\ responseBody' = body
    /\ apiResult' = apiRequestResult(FALSE, fetchOutcomes[fetchResponse] = "ok", body)
    /\ UNCHANGED <<maxRetries, attemptCount, lastError, fetchPhase, fetchCalls,
                   fetchOutcomes, fetchResponse, thrownError>>
    /\ UNCHANGED OtherThanApi

InitApi ==
    /\ InitWith(0, {FALSE})
    /\ NoDirectCall
    /\ NoCommand
    /\ NoVersionCall
    /\ NoCommentCall
    /\ ~parallel /\ ~failFast /\ ~onlyVerifyScripts /\ ~shouldCommentOnPR
    /\ K6_CLOUD_TOKEN = "undefined" /\ K6_CLOUD_PROJECT_ID = "undefined"
    /\ maxRetries \in 0..MaxRetries
    /\ attemptCount = 0
    /\ lastError = NoError
    /\ fetchPhase = "idle"
    /\ fetchCalls = 0
    /\ fetchOutcomes = <<>>
    /\ fetchResponse = 0
    /\ thrownError = NoError
    /\ responseBody = "none"
    /\ apiResult = "pending"

NextApi ==
    \/ ApiRequest
    \/ \E outcome \in FetchOutcomes : FetchSettles(outcome)
    \/ BackoffElapsed
    \/ \E body \in Bodies : BodyRead(body)

SpecApi == InitApi /\ [][NextApi]_vars

----------------------------------------------------------------------------
\* Calls of generatePRComment, which calls createOrUpdateComment.

OtherThanComment ==
    <<inputVars, procVars, validVars, execVars, sigVars, reportVars, mapVars,
      callVars, cmdVars, verVars, apiVars>>

\* The entries from position `from` on whose URL holds a test run id.
WithId(from) == {j \in from..Len(givenUrlsMap) : givenUrlsMap[j] = "id"}

\* The loop over the entries from entry `from` on, up to the next await: the
\* two fetches of the next entry with a test run id or, after the loop, the
\* call of getPullRequestNumber.
ContinueLoop(from) ==
    IF WithId(from) # {}
    THEN /\ testRunIndex' = Least(WithId(from))
         /\ genPhase' = "fetching"
    ELSE /\ testRunIndex' = Len(givenUrlsMap)
         /\ genPhase' = "lookup"

GeneratePRComment ==
    /\ genPhase = "idle"
    /\ IF Len(givenUrlsMap) = 0
       THEN /\ genPhase' = "returned"
            /\ UNCHANGED testRunIndex
       ELSE ContinueLoop(1)
    /\ UNCHANGED <<prComments, givenUrlsMap, pullRequestNumber, commentId, writes,
                   writeResult>>
    /\ UNCHANGED OtherThanComment

\* Promise.all of fetchTestRunSummary and fetchChecks settles: with a
\* summary, with undefined, or with a rejection, which no try block receives.
SummaryFetched(result) ==
    /\ genPhase = "fetching"
    /\ IF result = "rejects"
       THEN /\ genPhase' = "raised"
            /\ UNCHANGED testRunIndex
       ELSE ContinueLoop(testRunIndex + 1)
    /\ UNCHANGED <<prComments, givenUrlsMap, pullRequestNumber, commentId, writes,
                   writeResult>>
    /\ UNCHANGED OtherThanComment

\* getPullRequestNumber settles; with a number, createOrUpdateComment is
\* called and lists the comments.
PullRequestLookup(result) ==
    /\ genPhase = "lookup"
    /\ pullRequestNumber' = result
    /\ genPhase' = IF result = "found" THEN "listing" ELSE "returned"
    /\ UNCHANGED <<prComments, givenUrlsMap, testRunIndex, commentId, writes,
                   writeResult>>
    /\ UNCHANGED OtherThanComment

\* issues.listComments settles.  A rejection leaves createOrUpdateComment
\* through getActionCommentId and generatePRComment swallows it; otherwise
\* the one write is issued.
CommentsListed(ok) ==
    /\ genPhase = "listing"
    /\ IF ok
       THEN /\ commentId' = getActionCommentId(listComments(prComments))
            /\ writes' = Append(writes, WriteFor(commentId'))
            /\ genPhase' = "writing"
            /\ UNCHANGED writeResult
       ELSE /\ writeResult' = "threw"
            /\ genPhase' = "returned"
            /\ UNCHANGED <<commentId, writes>>
    /\ UNCHANGED <<prComments, givenUrlsMap, testRunIndex, pullRequestNumber>>
    /\ UNCHANGED OtherThanComment

\* updateComment or createComment settles; a created comment is on the pull
\* request from then on.
WriteSettles(ok) ==
    /\ genPhase = "writing"
    /\ writeResult' = IF ok THEN "resolved" ELSE "threw"
    /\ prComments' = IF ok /\ commentId = 0 THEN Append(prComments, "own") ELSE prComments
    /\ genPhase' = "returned"
    /\ UNCHANGED <<givenUrlsMap, testRunIndex, pullRequestNumber, commentId, writes>>
    /\ UNCHANGED OtherThanComment

InitComment ==
    /\ InitWith(0, {FALSE})
    /\ NoDirectCall
    /\ NoCommand
    /\ NoVersionCall
    /\ NoApiCall
    /\ ~parallel /\ ~failFast /\ ~onlyVerifyScripts /\ ~shouldCommentOnPR
    /\ K6_CLOUD_TOKEN = "undefined" /\ K6_CLOUD_PROJECT_ID = "undefined"
    /\ prComments \in UNION {[1..n -> CommentKinds] : n \in 0..MaxComments}
    /\ givenUrlsMap \in UNION {[1..n -> EntryKinds] : n \in 0..MaxMapEntries}
    /\ genPhase = "idle"
    /\ testRunIndex = 0
    /\ pullRequestNumber = "none"
    /\ commentId = 0
    /\ writes = <<>>
    /\ writeResult = "none"

NextComment ==
    \/ GeneratePRComment
    \/ \E result \in {"summary", "undefined", "rejects"} : SummaryFetched(result)
    \/ \E result \in {"found", "undefined", "threw"} : PullRequestLookup(result)
    \/ \E ok \in BOOLEAN : CommentsListed(ok)
    \/ \E ok \in BOOLEAN : WriteSettles(ok)

SpecComment == InitComment /\ [][NextComment]_vars

TypeOK ==
    /\ pc \in {"start", "validating", "running", "commenting", "returned", "exited"}
    /\ exitCode \in {0, 1}
    /\ exitBy \in {"none", "failFast", "someFailed", "SIGINT", "drain"}
    /\ Range(TEST_PIDS) \subseteq Scripts
    /\ killed \subseteq Scripts
    /\ allTestsPassed \in BOOLEAN

----------------------------------------------------------------------------
\* Vocabulary of the properties.

\* The run process of script c has ended with a failure outcome.
RunFailed(c) == runCode[c] # NotExited /\ runCode[c] # "0"

\* The run process of script c has been spawned and its exit not yet handled.
RunLive(c) == c \in Range(childProcesses) /\ runCode[c] = NotExited

\* Every dry-check subprocess has been spawned and has exited.
ValidationComplete ==
    /\ inspectSpawned = testPaths
    /\ Len(testPaths) > 0
    /\ \A s \in Range(testPaths) : inspectCode[s] # NotExited

\* The scripts whose dry-check exited with code 0.
ZeroExitScripts == {s \in Range(inspectSpawned) : inspectCode[s] = "0"}

\* A list of scripts is in the order of testPaths (scripts are numbered in
\* that order).
IsAscending(s) == \A i, j \in DOMAIN s : i < j => s[i] < s[j]

\* run() has come to its end by itself, not through the SIGINT handler.
\* The properties of run() are stated for runs that are not interrupted; the
\* interrupt is the subject of C10.
Interrupted == exitBy = "SIGINT"
RunEnded == (pc = "returned" \/ pc = "exited") /\ ~Interrupted

----------------------------------------------------------------------------
\* C1: in sequential mode with fail-fast, once a run process has exited with
\* a failure the process has terminated with status 1 and the failed command
\* is the last one that was ever spawned.
C1_SequentialFailFast ==
    (~parallel /\ failFast) =>
        \A i \in DOMAIN childProcesses :
            RunFailed(childProcesses[i]) =>
                /\ pc = "exited"
                /\ exitCode = 1
                /\ Len(childProcesses) = i

\* Three commands, the first passed, the second failed, the third was not spawned.
C1_Witness ==
    /\ ~parallel /\ failFast
    /\ Len(commands) = 3
    /\ runCode[1] = "0" /\ runCode[2] = "1"
    /\ childProcesses = <<1, 2>>
    /\ pc = "exited" /\ exitBy = "failFast"

\* C2: in parallel mode with fail-fast, once a run process has exited with a
\* failure, child.kill('SIGINT') has been called on every run process that
\* is still live and the process has terminated with status 1.
C2_ParallelFailFast ==
    (parallel /\ failFast /\ \E c \in Scripts : RunFailed(c)) =>
        /\ \A k \in Scripts : RunLive(k) => k \in killCalled
        /\ pc = "exited"
        /\ exitBy = "failFast"
        /\ exitCode = 1

\* Three concurrent commands, the second failed first, the other two were
\* live and were signalled.
C2_Witness ==
    /\ parallel /\ failFast
    /\ Len(childProcesses) = 3
    /\ runCode[2] = "1" /\ RunLive(1) /\ RunLive(3)
    /\ {1, 3} \subseteq killCalled
    /\ pc = "exited"

C4_OnlyValidatedScriptsRun ==
    Range(childProcesses) \subseteq ZeroExitScripts

\* C5: the list built by validateTestPaths holds exactly the scripts whose
\* dry-check has exited with code 0, and validateTestPaths resolves (run()
\* leaves the validation phase) whatever the other exit codes are.
C5_RetainedIffZero ==
    /\ Range(validK6TestPaths) = ZeroExitScripts
    /\ Len(validK6TestPaths) = Cardinality(ZeroExitScripts)
    /\ ValidationComplete => pc # "validating"
    /\ (ValidationComplete /\ ZeroExitScripts # {}) =>
           "No valid test files found" \notin Range(failedMsgs)

\* One dry-check exited with 0, one with a non-zero code, one by a signal.
C5_Witness ==
    /\ ValidationComplete
    /\ inspectCode[1] = "1" /\ inspectCode[2] = "0" /\ inspectCode[3] = "null"
    /\ validK6TestPaths = <<2>>
    /\ pc # "validating"

\* C6: the list built by validateTestPaths keeps the order of testPaths.
C6_InputOrderKept ==
    IsAscending(validK6TestPaths)

\* C7: in sequential mode without fail-fast the commands are spawned in list
\* order, the exit of a command (failed or not) is followed by the spawn of
\* the next one, and run() ends only after every command has exited.
C7_SequentialContinues ==
    (~parallel /\ ~failFast) =>
        /\ \A i \in DOMAIN childProcesses : childProcesses[i] = commands[i]
        /\ \A i \in DOMAIN childProcesses :
               (runCode[childProcesses[i]] # NotExited /\ i < Len(commands)) =>
                   Len(childProcesses) > i
        /\ (RunEnded /\ commands # <<>>) =>
               /\ childProcesses = commands
               /\ commands = testPaths
               /\ \A c \in Range(commands) : runCode[c] # NotExited

\* The first of three commands failed, all three were spawned and exited.
C7_Witness ==
    /\ ~parallel /\ ~failFast
    /\ runCode[1] = "1" /\ runCode[2] = "null" /\ runCode[3] = "0"
    /\ childProcesses = <<1, 2, 3>>
    /\ pc = "exited" /\ exitBy = "someFailed"

\* C8: with no script, nothing is ever spawned and the run fails with the
\* single message 'No test files found'; with no valid script, no run
\* process is ever spawned and the run fails with the single message
\* 'No valid test files found'.
C8_NoScriptsAbort ==
    /\ Len(testPaths) = 0 =>
           /\ inspectSpawned = <<>>
           /\ childProcesses = <<>>
           /\ RunEnded => (failedMsgs = <<"No test files found">> /\ exitCode = 1)
    /\ (ValidationComplete /\ ZeroExitScripts = {}) =>
           /\ childProcesses = <<>>
           /\ failedMsgs = <<"No valid test files found">>
           /\ exitCode = 1
           /\ pc \in {"returned", "exited"}

\* Three scripts, none passed its dry-check; the run has failed.
C8_Witness ==
    /\ Len(testPaths) = 3
    /\ ValidationComplete /\ ZeroExitScripts = {}
    /\ failedMsgs = <<"No valid test files found">>
    /\ pc = "exited" /\ exitBy = "drain" /\ exitCode = 1

\* C9: with only-verify-scripts no run process is ever spawned, and once
\* validation has completed with a valid script run() has returned without
\* an error and the exit status is 0.
C9_OnlyVerify ==
    onlyVerifyScripts =>
        /\ childProcesses = <<>>
        /\ (ValidationComplete /\ ZeroExitScripts # {} /\ ~Interrupted) =>
               /\ pc \in {"returned", "exited"}
               /\ failedMsgs = <<>>
               /\ exitCode = 0

\* Three scripts, two valid; the process ended with status 0.
C9_Witness ==
    /\ onlyVerifyScripts
    /\ Len(testPaths) = 3
    /\ ValidationComplete /\ Cardinality(ZeroExitScripts) = 2
    /\ pc = "exited" /\ exitBy = "drain" /\ exitCode = 0

\* C10: the SIGINT handler can run in every state in which the process is
\* alive; when it has run, process.kill was attempted on exactly the pids of
\* the registry, in order, whichever of the attempts failed, and the process
\* has terminated with status 1; with no live run process nothing was
\* signalled.
C10_SigintHandler ==
    /\ pc # "exited" => ENABLED OnSIGINT({})
    /\ Interrupted =>
           /\ sigintKills = TEST_PIDS
           /\ sigintFailed \subseteq Range(sigintKills)
           /\ pc = "exited"
           /\ exitCode = 1
           /\ (\A c \in Scripts : ~RunLive(c)) => sigintKills = <<>>
           /\ \A c \in Scripts : RunLive(c) => c \in Range(sigintKills)

\* Three live run processes, the attempt on the first failed, the other two
\* were attempted all the same.
C10_Witness ==
    /\ Interrupted
    /\ RunLive(1) /\ RunLive(2) /\ RunLive(3)
    /\ sigintKills = <<1, 2, 3>>
    /\ sigintFailed = {1}

----------------------------------------------------------------------------
\* Properties of the runs whose output is followed (SpecMap).

\* TOTAL_TEST_RUNS (index.ts, line 94) once the commands are built.
ExecutorEntered == Len(commands) > 0

\* C11: at every point of a run the number of entries of the result-reference
\* map is at most the number of validated scripts.
C11_MapWithinValidated ==
    ValidationComplete => Len(TEST_RESULT_URLS_MAP) <= Len(validK6TestPaths)

\* C12: the block of the set trap that is entered when the size of the map
\* equals the expected count is entered at most once in a run, it has been
\* entered exactly once when the map is at full cardinality and not at all
\* while the map is below it; the URLs are logged inside that block only.
C12_ThresholdOnce ==
    /\ thresholdRuns <= 1
    /\ urlLogRuns <= thresholdRuns
    /\ ExecutorEntered =>
           (thresholdRuns = 1 <=> Len(TEST_RESULT_URLS_MAP) = Len(commands))
    /\ ~ExecutorEntered => thresholdRuns = 0

\* Both scripts of a cloud run have reported their URL: the block has run.
C12_Witness ==
    /\ Len(commands) = 2
    /\ isCloud
    /\ MapKeys(TEST_RESULT_URLS_MAP) = {PathOf(1), PathOf(2)}
    /\ thresholdRuns = 1
    /\ urlLogRuns = 1

----------------------------------------------------------------------------
\* Properties of the direct calls of parseK6Output (SpecParser).

\* The line starts with the label, after blanks only, and gives it a value.
LabelLine(line, label) ==
    \E j \in DOMAIN line :
        /\ line[j] = label
        /\ \A m \in 1..(j - 1) : line[m] = " "
        /\ \E k \in (j + 1)..Len(line) : line[k] # " "

\* The value that such a line gives to its label.
LineValue(line, label) ==
    LET j == CHOOSE i \in DOMAIN line : line[i] = label /\ \A m \in 1..(i - 1) : line[m] = " "
    IN SubSeq(line, Least({k \in (j + 1)..Len(line) : line[k] # " "}), Len(line))

\* The chunk has a line for the label; the first such line.
HasLabelLine(chunk, label) ==
    \E i \in DOMAIN Split(chunk, "\n") : LabelLine(Split(chunk, "\n")[i], label)
FirstLabelLine(chunk, label) ==
    LET lines == Split(chunk, "\n")
    IN lines[Least({i \in DOMAIN lines : LabelLine(lines[i], label)})]

HasBothLines(chunk) == HasLabelLine(chunk, "script:") /\ HasLabelLine(chunk, "output:")

\* The script path that the chunk names and the result reference it gives:
\* the URL inside `cloud (<url>)`, or the bare value.
PathNamed(chunk) == LineValue(FirstLabelLine(chunk, "script:"), "script:")
ReferenceGiven(chunk) ==
    LET v == LineValue(FirstLabelLine(chunk, "output:"), "output:")
        opens == {i \in DOMAIN v : v[i] = "("}
    IN IF v[1] = "cloud" /\ v[Len(v)] = ")" /\ opens # {} /\ Least(opens) + 1 < Len(v)
       THEN SubSeq(v, Least(opens) + 1, Len(v) - 1)
       ELSE v

\* The last call found the map present and not yet full.
ExtractionWasOpen == mapPresent /\ Len(mapBefore) < totalTestRuns

\* C14 as stated: with the map present and not yet full, a chunk with both
\* lines adds exactly one entry, which maps the script path to the result
\* reference, and with debug off nothing is forwarded; a chunk that lacks
\* either line adds no entry.
C14_Original ==
    (called /\ ExtractionWasOpen) =>
        IF HasBothLines(lastChunk)
        THEN /\ Len(TEST_RESULT_URLS_MAP) = Len(mapBefore) + 1
             /\ PathNamed(lastChunk) \in MapKeys(TEST_RESULT_URLS_MAP)
             /\ MapGet(TEST_RESULT_URLS_MAP, PathNamed(lastChunk)) = ReferenceGiven(lastChunk)
             /\ (~debug => written = <<>>)
        ELSE TEST_RESULT_URLS_MAP = mapBefore

\* C14: with the map present and not yet full, a chunk with both lines sets
\* the entry of the script path to the result reference (the URL inside
\* `cloud (<url>)`, or the bare value): the map then holds exactly one entry
\* for that path, a new one when the path was absent and the old one with
\* the new reference otherwise; the other entries are as before, and with
\* debug off nothing of the chunk is forwarded.  A chunk that lacks either
\* line leaves the map as it was.
C14_ExtractionSetsEntry ==
    (called /\ ExtractionWasOpen) =>
        IF HasBothLines(lastChunk)
        THEN /\ MapKeys(TEST_RESULT_URLS_MAP) = MapKeys(mapBefore) \cup {PathNamed(lastChunk)}
             /\ Len(TEST_RESULT_URLS_MAP) = Cardinality(MapKeys(TEST_RESULT_URLS_MAP))
             /\ MapGet(TEST_RESULT_URLS_MAP, PathNamed(lastChunk)) = ReferenceGiven(lastChunk)
             /\ \A k \in MapKeys(mapBefore) \ {PathNamed(lastChunk)} :
                    MapGet(TEST_RESULT_URLS_MAP, k) = MapGet(mapBefore, k)
             /\ (~debug => written = <<>>)
        ELSE TEST_RESULT_URLS_MAP = mapBefore

\* With debug off, the header of p1 in the cloud form reached a map of two
\* expected entries that held p1 with a bare reference: the entry of p1 was
\* replaced and nothing was forwarded.
C14_Witness ==
    /\ called /\ ~debug
    /\ totalTestRuns = 2
    /\ mapBefore = <<<< <<"p1">>, <<"-">> >>>>
    /\ TEST_RESULT_URLS_MAP = <<<< <<"p1">>, <<"u1">> >>>>
    /\ written = <<>>

\* C15: with debug on, every chunk is forwarded exactly once and unchanged,
\* whatever it contains and whatever the state of the map; a chunk with both
\* header lines that finds the map present and not full still sets the entry
\* of its script path.
C15_DebugForwardsVerbatim ==
    (called /\ debug) =>
        /\ written = <<lastChunk>>
        /\ IF ExtractionWasOpen /\ HasBothLines(lastChunk)
           THEN /\ PathNamed(lastChunk) \in MapKeys(TEST_RESULT_URLS_MAP)
                /\ MapGet(TEST_RESULT_URLS_MAP, PathNamed(lastChunk)) =
                       ReferenceGiven(lastChunk)
           ELSE TEST_RESULT_URLS_MAP = mapBefore

\* With debug on, a header chunk was recorded and forwarded.
C15_Witness ==
    /\ called /\ debug
    /\ mapBefore = <<>>
    /\ TEST_RESULT_URLS_MAP = <<<< <<"p1">>, <<"u1">> >>>>
    /\ HasBothLines(lastChunk)
    /\ written = <<lastChunk>>

\* The line matches one of the transient-progress patterns.
IsProgressLine(line) ==
    \E p \in DOMAIN line : \E r \in DOMAIN ProgressTokens : line[p] \in ProgressTokens[r]
IsOtherLine(line) == ~IsProgressLine(line)

\* The last call suppressed its chunk as metadata or banner.
WasSuppressed ==
    ExtractionWasOpen /\ (HasBothLines(lastChunk) \/ checkIfK6ASCIIArt(lastChunk))

\* C16: with debug off, for a chunk that is not suppressed and after any
\* earlier chunks, what is forwarded is the lines of the chunk that match no
\* progress pattern, in order and joined by line feeds; nothing is written
\* when lines were dropped and no text is left.
C16_FilteringExact ==
    (called /\ ~debug /\ ~WasSuppressed) =>
        LET lines == Split(lastChunk, "\n")
            kept == SelectSeq(lines, IsOtherLine)
        IN written = IF Len(kept) < Len(lines) /\ Join(kept, "") = <<>>
                     THEN <<>>
                     ELSE <<Join(kept, "\n")>>

\* C17: with debug off, a chunk that is recognised as the banner is never
\* forwarded, whatever the state of the map.
C17_BannerNeverForwarded ==
    (called /\ ~debug /\ checkIfK6ASCIIArt(lastChunk)) => written = <<>>

\* C18: parseK6Output never throws; every call returns having written the
\* chunk, a part of it, or nothing.
C18_NeverThrows ==
    /\ ~thrown
    /\ Len(written) <= 1

\* A header chunk was given with a null map: nothing was recorded, the chunk
\* was forwarded and the call returned.
C18_Witness ==
    /\ called /\ ~mapPresent /\ ~debug
    /\ totalTestRuns > 0
    /\ HasBothLines(lastChunk)
    /\ written = <<lastChunk>>
    /\ ~thrown

----------------------------------------------------------------------------
\* Properties of the command builder (SpecCmd).

\* The installed version is known and below 0.54.0, or at least 0.54.0.
VersionKnown == Len(installedK6Version) = 3
VersionNumber ==
    installedK6Version[1] * 1000000 + installedK6Version[2] * 1000 + installedK6Version[3]
VersionBelow == VersionNumber < 54000

\* The text of the command for a verb and an extra argument (<<>> for none).
CommandText(verb, extra) ==
    verb \o <<" ", "--address=">>
         \o (IF cmdFlags # <<>> THEN <<" ">> \o cmdFlags ELSE <<>>)
         \o (IF extra # <<>> THEN <<" ">> \o extra ELSE <<>>)
         \o <<" ">> \o cmdPath

\* C19: the verb and the extra argument follow the decision table, for every
\* flag string and path: cloud off gives `k6 run` and no cloud argument;
\* cloud on with a version below 0.54.0 gives `k6 run` with `--out=cloud`
\* when run-locally and `k6 cloud` with no extra argument otherwise; cloud on
\* with a version of at least 0.54.0 gives `k6 cloud run`, with
\* `--local-execution` exactly when run-locally.
C19_DecisionTable ==
    /\ (~cmdIsCloud /\ cmdPhase # "idle") =>
           /\ cmdPhase # "thrown"
           /\ builtCommand = CommandText(<<"k6", " ", "run">>, <<>>)
    /\ (cmdIsCloud /\ VersionKnown /\ cmdPhase # "idle") =>
           /\ cmdPhase # "thrown"
           /\ builtCommand =
                  IF VersionBelow
                  THEN IF cmdRunLocally
                       THEN CommandText(<<"k6", " ", "run">>, <<"--out=cloud">>)
                       ELSE CommandText(<<"k6", " ", "cloud">>, <<>>)
                  ELSE IF cmdRunLocally
                       THEN CommandText(<<"k6", " ", "cloud", " ", "run">>,
                                        <<"--local-execution">>)
                       ELSE CommandText(<<"k6", " ", "cloud", " ", "run">>, <<>>)

\* The command of a cloud run executed locally with k6 0.54.0 and two flags.
C19_Witness ==
    /\ cmdPhase = "generated"
    /\ cmdIsCloud /\ cmdRunLocally
    /\ installedK6Version = <<0, 54, 0>>
    /\ cmdFlags = <<"-f", " ", "-f">>
    /\ cmdPath = <<"p">>
    /\ builtCommand = <<"k6", " ", "cloud", " ", "run", " ", "--address=", " ", "-f", " ",
                        "-f", " ", "--local-execution", " ", "p">>

\* C20: the invocation spawned for a script has the executable `k6` and an
\* argument list whose last element is the script path.
C20_RoundTrip ==
    cmdPhase = "spawned" =>
        /\ spawnCmd = <<"k6">>
        /\ spawnArgs # <<>>
        /\ spawnArgs[Len(spawnArgs)] = cmdPath

----------------------------------------------------------------------------
\* Properties of isVersionAtLeast (SpecVersion).

\* C21: isVersionAtLeast throws, instead of returning a comparison result,
\* exactly when a version string is empty or the two strings differ in the
\* number of segments; segments are never padded.
C21_MismatchThrows ==
    versionResult # "none" =>
        (versionResult = "throw" <=>
            \/ Len(givenVersion1) = 0
            \/ Len(givenVersion2) = 0
            \/ Len(givenVersion1) # Len(givenVersion2))

\* '1.1' against '1.1.0' has thrown.
C21_Witness ==
    /\ givenVersion1 = <<1, 1>>
    /\ givenVersion2 = <<1, 1, 0>>
    /\ versionResult = "throw"

----------------------------------------------------------------------------
\* Properties of the cloud settings (Spec).

ProjectIdMessage == "K6_CLOUD_PROJECT_ID must be set when K6_CLOUD_TOKEN is set"
TokenSet == K6_CLOUD_TOKEN = "set"
ProjectIdMissing == K6_CLOUD_PROJECT_ID = "undefined" \/ K6_CLOUD_PROJECT_ID = ""

\* C22 as stated: with the token set and the project id unset or empty, a
\* run that has ended has failed with the message about the project id and
\* no run process was spawned; with the token unset or empty, cloud mode is
\* off and that error is not raised.
C22_Original ==
    /\ (RunEnded /\ TokenSet /\ ProjectIdMissing) =>
           /\ failedMsgs = <<ProjectIdMessage>>
           /\ childProcesses = <<>>
    /\ ~TokenSet => ~isCloud /\ \A i \in DOMAIN failedMsgs : failedMsgs[i] # ProjectIdMessage

\* C22: with the token set and the project id unset or empty, no run process
\* is ever spawned, and a run that reaches the cloud check (some script
\* passed validation and only-verify-scripts is off) fails with the message
\* about the project id; with the token unset or empty, cloud mode is off
\* and that error is not raised, whatever the project id.
C22_CloudConfigConflict ==
    /\ (TokenSet /\ ProjectIdMissing) =>
           /\ childProcesses = <<>>
           /\ (RunEnded /\ ValidationComplete /\ validK6TestPaths # <<>> /\ ~onlyVerifyScripts) =>
                  /\ failedMsgs = <<ProjectIdMessage>>
                  /\ exitCode = 1
    /\ ~TokenSet => ~isCloud /\ \A i \in DOMAIN failedMsgs : failedMsgs[i] # ProjectIdMessage

\* Two scripts passed validation and the run failed on the empty project id.
C22_Witness ==
    /\ TokenSet /\ K6_CLOUD_PROJECT_ID = ""
    /\ Len(validK6TestPaths) = 2
    /\ pc = "exited" /\ exitBy = "drain" /\ exitCode = 1
    /\ failedMsgs = <<ProjectIdMessage>>
    /\ childProcesses = <<>>

----------------------------------------------------------------------------
\* Properties of fetchWithRetry and apiRequest (SpecApi).

\* The attempts of fetchWithRetry that have settled.
Attempts == Len(fetchOutcomes)
\* Attempt i ended with an error status that is retried or a network error.
AttemptFailed(i) == fetchOutcomes[i] \in {"retryStatus", "networkError"}
\* The error that attempt i left behind.
ErrorOf(i) ==
    [kind |-> IF fetchOutcomes[i] = "networkError" THEN "network" ELSE "http",
     attempt |-> i]
FetchReturned == fetchPhase = "returned"
FetchThrew == fetchPhase = "thrown"

\* C23: fetchWithRetry stops at the first attempt whose response is ok or
\* has a status listed in nonRetryStatusCodes and returns that response
\* without further attempts; otherwise it retries on error statuses and on
\* network errors and throws the last error after exactly maxRetries + 1
\* attempts in total.
C23_RetryContract ==
    /\ \A i \in 1..(Attempts - 1) : AttemptFailed(i)
    /\ fetchCalls <= maxRetries + 1
    /\ FetchReturned <=> (Attempts > 0 /\ ~AttemptFailed(Attempts))
    /\ FetchReturned => fetchResponse = Attempts /\ fetchCalls = Attempts
    /\ FetchThrew <=> (Attempts = maxRetries + 1 /\ AttemptFailed(Attempts))
    /\ FetchThrew => fetchCalls = maxRetries + 1 /\ thrownError = ErrorOf(Attempts)

\* With maxRetries = 2, an error status, a network error and an error
\* status again: the third error has been thrown.
C23_Witness ==
    /\ maxRetries = 2
    /\ fetchOutcomes = <<"retryStatus", "networkError", "retryStatus">>
    /\ fetchCalls = 3
    /\ FetchThrew
    /\ thrownError = [kind |-> "http", attempt |-> 3]

\* The response fetchWithRetry returned was ok.
ResponseOk == FetchReturned /\ fetchOutcomes[fetchResponse] = "ok"
\* apiRequest has ended.
ApiSettled == apiResult # "pending"

----------------------------------------------------------------------------
\* Properties of createOrUpdateComment and generatePRComment (SpecComment).

\* A comment of this job is on the pull request.
OwnCommentExists == \E i \in DOMAIN prComments : prComments[i] = "own"
\* createOrUpdateComment has issued its write, which has not settled yet.
WriteIssued == genPhase = "writing"
\* generatePRComment has raised.
CommentRaised == genPhase = "raised"

\* C25: a call of createOrUpdateComment never issues more than one write and
\* a call that resolved issued exactly one; the write is an update of a
\* comment starting with the watermark of this job when such a comment
\* exists on the pull request, and the creation of a comment otherwise.
C25_OneWrite ==
    /\ Len(writes) <= 1
    /\ writeResult = "resolved" => Len(writes) = 1
    /\ WriteIssued =>
           /\ writes[1].op = "update" <=> OwnCommentExists
           /\ writes[1].op = "update" => prComments[writes[1].id] = "own"

\* C26: generatePRComment never raises; a failure of the lookup of the pull
\* request or of the creation or update of the comment leaves it returned,
\* and no write is issued when the map is empty or no pull request is found.
C26_NeverRaises ==
    /\ ~CommentRaised
    /\ (pullRequestNumber = "threw" \/ writeResult = "threw") => genPhase = "returned"
    /\ (Len(givenUrlsMap) = 0 \/ pullRequestNumber \in {"undefined", "threw"}) =>
           writes = <<>>

----------------------------------------------------------------------------
\* Properties of the barrier, the cancellation and the registry (Spec).

\* A dry-check subprocess that was spawned has not exited yet.
DryCheckRunning == \E s \in Range(inspectSpawned) : inspectCode[s] = NotExited
\* validateTestPaths has resolved: run() went on after it.
ValidationResolved ==
    inspectSpawned # <<>> /\ (pc \in {"running", "commenting", "returned"} \/ RunEnded)
\* The run processes whose exit has been handled.
ExitedRuns == {c \in Range(childProcesses) : runCode[c] # NotExited}
\* The run processes spawned whose exit has not been handled.
LiveRuns == {c \in Range(childProcesses) : runCode[c] = NotExited}
\* The run ended in the cancellation of parallel mode.
ParallelCancelled == parallel /\ exitBy = "failFast"

\* C27: validateTestPaths resolves only after every dry-check subprocess it
\* spawned has exited, so no run process is spawned while a dry-check
\* subprocess is still running.
C27_ValidationBarrier ==
    /\ ValidationResolved => ~DryCheckRunning
    /\ childProcesses # <<>> => ~DryCheckRunning

\* Three scripts went through their dry-checks, one of them failed it, and
\* a run process is live.
C27_Witness ==
    /\ Len(inspectSpawned) = 3
    /\ Len(validK6TestPaths) = 2
    /\ pc = "running"
    /\ LiveRuns # {}

C29_RegistryExact ==
    /\ Range(TEST_PIDS) = LiveRuns
    /\ Cardinality(Range(TEST_PIDS)) = Len(TEST_PIDS)
    /\ (exitBy = "failFast" \/ exitBy = "someFailed") =>
           Range(TEST_PIDS) \cap ExitedRuns = {}

\* In parallel mode the second of three processes has exited: the registry
\* holds the first and the third.
C29_Witness ==
    /\ parallel
    /\ pc = "running"
    /\ childProcesses = <<1, 2, 3>>
    /\ runCode[2] # NotExited
    /\ TEST_PIDS = <<1, 3>>

\* C30: in sequential mode the commands are spawned in script order, at most
\* one run process is live at any time, and a command is spawned only after
\* the exit of every command before it has been handled, so that the
\* outcomes come in script order.
C30_SequentialOrder ==
    ~parallel =>
        /\ childProcesses = SubSeq(commands, 1, Len(childProcesses))
        /\ Cardinality(LiveRuns) <= 1
        /\ \A i \in DOMAIN childProcesses :
               i < Len(childProcesses) => runCode[childProcesses[i]] # NotExited
        /\ \A i \in DOMAIN commands :
               i > Len(childProcesses) => runCode[commands[i]] = NotExited

\* The first two of three commands have exited, the second with a failure,
\* and the third is live.
C30_Witness ==
    /\ ~parallel
    /\ Len(commands) = 3
    /\ childProcesses = commands
    /\ runCode[commands[1]] = "0" /\ runCode[commands[2]] = "1"
    /\ runCode[commands[3]] = NotExited
    /\ pc = "running"

----------------------------------------------------------------------------
\* Properties of the executor without cancellation (Spec).

\* The executor has come to its verdict: the code after the await of all
\* exits has run.
VerdictReached ==
    childProcesses # <<>> /\
    (pc \in {"commenting", "returned"} \/ exitBy \in {"someFailed", "drain"})
\* Some run process has ended with a failure outcome.
SomeRunFailed == \E c \in Range(childProcesses) : RunFailed(c)

\* C31: in parallel mode with fail-fast disabled, child.kill is never called
\* on a run process and none is signalled because another one failed, and
\* the verdict is reached only after every spawned process has exited.
C31_ParallelRunsToCompletion ==
    (parallel /\ ~failFast) =>
        /\ killCalled = {}
        /\ killed = {}
        /\ VerdictReached => LiveRuns = {}

\* Of three processes the second has failed and the other two are live;
\* nothing was signalled and the run goes on.
C31_Witness ==
    /\ parallel /\ ~failFast
    /\ childProcesses = <<1, 2, 3>>
    /\ runCode[1] = NotExited /\ runCode[2] = "1" /\ runCode[3] = NotExited
    /\ pc = "running"
    /\ killCalled = {}

\* C32: in parallel mode with fail-fast disabled, the verdict and the exit
\* status of a run that came to its end are determined by the exit codes of
\* the run processes (and by whether the result reporting failed), whatever
\* the order in which the exit events were delivered.
C32_OrderIndependent ==
    (parallel /\ ~failFast /\ VerdictReached) =>
        /\ allTestsPassed = ~SomeRunFailed
        /\ pc = "exited" =>
               /\ exitCode = IF SomeRunFailed \/ failedMsgs # <<>> THEN 1 ELSE 0
               /\ failedMsgs = <<>> =>
                      exitBy = IF SomeRunFailed THEN "someFailed" ELSE "drain"

\* The first of three processes failed and exited before the other two,
\* which passed: the run ended with status 1.
C32_Witness ==
    /\ parallel /\ ~failFast
    /\ childProcesses = <<1, 2, 3>>
    /\ runCode[1] = "1" /\ runCode[2] = "0" /\ runCode[3] = "0"
    /\ pc = "exited" /\ exitBy = "someFailed" /\ exitCode = 1

\* C33: no command is spawned more than once, so a failed script is never
\* run again, and a run that is cut short neither by fail-fast nor by an
\* interrupt ends with every command spawned once and exited once.
C33_EachCommandOnce ==
    /\ Cardinality(Range(childProcesses)) = Len(childProcesses)
    /\ Range(childProcesses) \subseteq Range(commands)
    /\ \A c \in Scripts : runCode[c] # NotExited => c \in Range(childProcesses)
    /\ (RunEnded /\ commands # <<>> /\ exitBy # "failFast") =>
           /\ Len(childProcesses) = Len(commands)
           /\ LiveRuns = {}

\* In sequential mode the first of three commands failed and the other two
\* passed: three processes were spawned and the run ended.
C33_Witness ==
    /\ ~parallel /\ ~failFast
    /\ Len(commands) = 3
    /\ Len(childProcesses) = 3
    /\ runCode[commands[1]] = "1" /\ runCode[commands[2]] = "0"
    /\ runCode[commands[3]] = "0"
    /\ pc = "exited" /\ exitBy = "someFailed"

----------------------------------------------------------------------------
\* Properties of the frozen map (SpecParser).

\* The last call found the map full (as many entries as expected, or more)
\* or was given no map.
MapWasFrozen == ~ExtractionWasOpen
\* No line of the chunk is a progress line.
NoProgressLine(chunk) ==
    \A i \in DOMAIN Split(chunk, "\n") : IsOtherLine(Split(chunk, "\n")[i])
\* The lines of the chunk that are not progress lines hold no text.
NoOtherText(chunk) == Join(SelectSeq(Split(chunk, "\n"), IsOtherLine), "") = <<>>

\* C34: a chunk that finds the map full, or no map, leaves the map as it
\* was and is forwarded as any other output, header lines and banner
\* included: with debug on as it is; with debug off as it is when it has no
\* progress line, and never dropped when a line other than a progress line
\* holds text.
C34_FrozenMap ==
    (called /\ MapWasFrozen) =>
        /\ TEST_RESULT_URLS_MAP = mapBefore
        /\ ~thrown
        /\ debug => written = <<lastChunk>>
        /\ (~debug /\ NoProgressLine(lastChunk)) => written = <<lastChunk>>
        /\ (~debug /\ written = <<>>) => NoOtherText(lastChunk)

\* With debug off, the header of p2 reached a map that held its one expected
\* entry, for p1: the map stayed as it was and the header was forwarded.
C34_Witness ==
    /\ called /\ ~debug /\ mapPresent
    /\ totalTestRuns = 1
    /\ mapBefore = <<<< <<"p1">>, <<"u1">> >>>>
    /\ TEST_RESULT_URLS_MAP = mapBefore
    /\ HasBothLines(lastChunk)
    /\ PathNamed(lastChunk) = <<"p2">>
    /\ written = <<lastChunk>>

----------------------------------------------------------------------------
\* Properties of the banner test (SpecParser).

\* The chunk contains the marker '.io'.
HasMarker(chunk) == \E i \in DOMAIN chunk : chunk[i] = ".io"
\* The characters of the chunk up to the end of its first '.io', with a line
\* feed for every '%0A'.
MarkedChars(chunk) ==
    LET last == Least({i \in DOMAIN chunk : chunk[i] = ".io"})
    IN UNION {CharsOf(IF chunk[i] = "%0A" THEN "\n" ELSE chunk[i]) : i \in 1..last}
\* The last call had the banner test decide on what it wrote: the map was
\* present and not full, debug was off, and the chunk held neither both
\* header lines nor a progress line.  Such a chunk is written as it is
\* unless it is recognised as the banner.
BannerTestDecided ==
    /\ called /\ ~debug /\ ExtractionWasOpen
    /\ ~HasBothLines(lastChunk)
    /\ NoProgressLine(lastChunk)
RecognisedAsBanner == written = <<>>

----------------------------------------------------------------------------
\* Properties of a recorded result reference (SpecParser).

\* The last call was given a chunk that names a script path for which the
\* map already held a reference.
NamesRecordedPath ==
    /\ called
    /\ HasLabelLine(lastChunk, "script:")
    /\ PathNamed(lastChunk) \in MapKeys(mapBefore)

\* C38 as stated: once a result reference has been recorded for a script
\* path, a later chunk that names the same script path does not change the
\* recorded reference.
C38_Original ==
    NamesRecordedPath =>
        /\ PathNamed(lastChunk) \in MapKeys(TEST_RESULT_URLS_MAP)
        /\ MapGet(TEST_RESULT_URLS_MAP, PathNamed(lastChunk)) =
               MapGet(mapBefore, PathNamed(lastChunk))

\* C38: a later chunk that names a script path with a recorded reference
\* leaves the map as it was when the map is full or the chunk has no output
\* line; while the map holds fewer entries than expected, a chunk with an
\* output line replaces the recorded reference by the one it gives, adds no
\* entry and leaves the other entries and the order of the keys as they
\* were.
C38_ReferenceReplacedUntilFull ==
    NamesRecordedPath =>
        IF ExtractionWasOpen /\ HasLabelLine(lastChunk, "output:")
        THEN /\ Len(TEST_RESULT_URLS_MAP) = Len(mapBefore)
             /\ \A i \in DOMAIN mapBefore :
                    /\ TEST_RESULT_URLS_MAP[i][1] = mapBefore[i][1]
                    /\ TEST_RESULT_URLS_MAP[i][2] =
                           IF mapBefore[i][1] = PathNamed(lastChunk)
                           THEN ReferenceGiven(lastChunk)
                           ELSE mapBefore[i][2]
        ELSE TEST_RESULT_URLS_MAP = mapBefore

\* The map of two expected entries held the URL u1 for p1; a later chunk
\* named p1 with the bare reference '-', which replaced the URL.
C38_Witness ==
    /\ NamesRecordedPath
    /\ totalTestRuns = 2
    /\ mapBefore = <<<< <<"p1">>, <<"u1">> >>>>
    /\ TEST_RESULT_URLS_MAP = <<<< <<"p1">>, <<"-">> >>>>

----------------------------------------------------------------------------
\* Properties of a run process ended by a signal, and of the reporting
\* after a cancellation.

\* The run process of script c ended by a signal: its 'exit' event carried
\* the code null.
EndedBySignal(c) == runCode[c] = "null"

\* C37: a run process that ends by a signal, with no exit code, counts as a
\* failure: with fail-fast on the run is terminated with status 1 in the
\* handler of that exit, and with fail-fast off the aggregate flag is
\* lowered and a run that comes to its end has the exit status 1.
C37_SignalIsFailure ==
    \A c \in Range(childProcesses) :
        EndedBySignal(c) =>
            IF failFast
            THEN pc = "exited" /\ exitBy = "failFast" /\ exitCode = 1
            ELSE /\ ~allTestsPassed
                 /\ RunEnded => exitCode = 1
                 /\ (pc = "exited" /\ ~Interrupted /\ failedMsgs = <<>>) =>
                        exitBy = "someFailed"

\* In sequential mode with fail-fast off the first of three processes was
\* ended by a signal and the other two passed: the run ended with status 1.
C37_Witness ==
    /\ ~parallel /\ ~failFast
    /\ Len(childProcesses) = 3
    /\ EndedBySignal(childProcesses[1])
    /\ runCode[childProcesses[2]] = "0" /\ runCode[childProcesses[3]] = "0"
    /\ pc = "exited" /\ exitBy = "someFailed" /\ exitCode = 1

\* C39 (SpecMap): with fail-fast on, once a run process has failed the run
\* is terminated and no result is reported: the testRunIds output is not
\* set and generatePRComment is not called, whatever the map holds.
C39_NoReportAfterFailFast ==
    (failFast /\ SomeRunFailed) =>
        /\ pc = "exited" /\ exitBy = "failFast"
        /\ ~testRunIdsSet
        /\ prCommentCalls = 0
        /\ reported = <<>>

\* A cloud run with PR comments requested: the reference of the first
\* script was collected, the second script failed, and nothing was reported.
C39_Witness ==
    /\ failFast /\ isCloud /\ shouldCommentOnPR
    /\ exitBy = "failFast"
    /\ Len(TEST_RESULT_URLS_MAP) = 1
    /\ RunFailed(2)
    /\ ~testRunIdsSet /\ prCommentCalls = 0

----------------------------------------------------------------------------
\* Termination (SpecLive).

\* C35: when every dry-check subprocess and every run process exits, the
\* orchestrator terminates with an exit status, in both modes and for both
\* settings of fail-fast.
C35_Terminates == <>(pc = "exited")

\* In parallel mode with fail-fast off, two run processes have exited, one
\* of them with a failure, and the orchestrator has terminated with status 1.
C35_Witness ==
    /\ parallel /\ ~failFast
    /\ childProcesses = <<1, 2>>
    /\ runCode[1] = "1" /\ runCode[2] = "0"
    /\ pc = "exited" /\ exitBy = "someFailed" /\ exitCode = 1

====
